---- MODULE Spec2Model ----
\* A model of the Cloudflare Vectorize client utilities
\* (src/utils/CloudflareVectorizeUtils.ts): the validators, the formatter and
\* batcher, the request executor and the operation wrappers built on it.
EXTENDS Integers, Sequences, FiniteSets, TLC

VARIABLES pc, op, config, args, outcome, loop, requests, resp, calls, shared, node

vars == <<pc, op, config, args, outcome, loop, requests, resp, calls, shared, node>>

\* ------------------------------------------------------------------ bounds

\* Longest index name enumerated character by character.
MaxNameLen == 3
\* Longest vector list handed to validateVectorDimensions / formatVectors.
MaxVecs == 2
\* Longest vector list handed to batchVectors.
MaxBatchLen == 3
\* Largest batch size handed to batchVectors.
MaxBatchSize == 3
\* Longest errors list of a response envelope.
MaxErrors == 2
\* Iterations of the batchVectors loop that are followed before it is cut off
\* (only a loop that never ends gets this far).
MaxLoopSteps == 6
\* The longest list of input items of a run of the node, besides the
\* single-item lists of every resource and operation.
MaxItems == 3

\* ------------------------------------------------------- program constants

MaxIndexNameLength == 63
DefaultBatchSize == 1000

\* --------------------------------------------------------- JavaScript values

\* A JavaScript value: t is its type tag, n its number, s its string, e its
\* elements (arrays and typed arrays). "absent" is a property that is not there.
JS(t, n, s, e) == [t |-> t, n |-> n, s |-> s, e |-> e]
Absent == JS("absent", 0, "", <<>>)
Null == JS("null", 0, "", <<>>)
Num(n) == JS("num", n, "", <<>>)
Str(s) == JS("str", 0, s, <<>>)
Bool(b) == JS("bool", IF b THEN 1 ELSE 0, "", <<>>)
Obj(s) == JS("obj", 0, s, <<>>)
Arr(e) == JS("arr", 0, "", e)
F32(e) == JS("f32", 0, "", e)
F64(e) == JS("f64", 0, "", e)
\* The number n + 0.5: what stands for a number that is not an integer.
Half(n) == JS("half", n, "", <<>>)

\* JavaScript truthiness (the ! operator, ||, && and if).
Truthy(v) ==
    CASE v.t \in {"absent", "null"} -> FALSE
      [] v.t = "num" -> v.n # 0
      [] v.t = "str" -> v.s # ""
      [] v.t = "bool" -> v.n = 1
      [] OTHER -> TRUE

\* String(v) for the values that reach it.
ToStr(v) ==
    CASE v.t = "str" -> v.s
      [] v.t = "num" -> ToString(v.n)
      [] v.t = "half" -> ToString(v.n) \o ".5"
      [] v.t = "absent" -> "undefined"
      [] v.t = "null" -> "null"
      [] v.t = "bool" -> IF v.n = 1 THEN "true" ELSE "false"
      [] OTHER -> "[object]"

\* Array.isArray(v) || v instanceof Float32Array || v instanceof Float64Array
IsArrayLike(v) == v.t \in {"arr", "f32", "f64"}

Min(a, b) == IF a < b THEN a ELSE b
Max(a, b) == IF a > b THEN a ELSE b

\* ------------------------------------------------------------------ errors

\* A thrown error: its class and its message, as the pieces the template joins.
Err(cls, msg) == [cls |-> cls, msg |-> msg]
NoErr == Err("none", <<>>)

Returned(ret) == [status |-> "returned", err |-> NoErr, ret |-> ret]
Threw(e) == [status |-> "threw", err |-> e,
             ret |-> [kind |-> "none", vectors |-> <<>>, batches |-> <<>>,
                      val |-> Absent, raw |-> FALSE]]
NoOutcome == [status |-> "none", err |-> NoErr,
              ret |-> [kind |-> "none", vectors |-> <<>>, batches |-> <<>>,
                       val |-> Absent, raw |-> FALSE]]
RetVoid == [kind |-> "void", vectors |-> <<>>, batches |-> <<>>,
            val |-> Absent, raw |-> FALSE]
RetVectors(vs) == [kind |-> "vectors", vectors |-> vs, batches |-> <<>>,
                   val |-> Absent, raw |-> FALSE]
RetBatches(bs) == [kind |-> "batches", vectors |-> <<>>, batches |-> bs,
                   val |-> Absent, raw |-> FALSE]
\* executeRequest's value: the envelope's result, or (raw) the response itself.
RetValue(v) == [kind |-> "value", vectors |-> <<>>, batches |-> <<>>,
                val |-> v, raw |-> FALSE]
RetRaw == [kind |-> "value", vectors |-> <<>>, batches |-> <<>>,
           val |-> Absent, raw |-> TRUE]

\* -------------------------------------------------------------- index names

\* An index name argument: a string given by its characters, or no string.
NameStr(chars) == [t |-> "str", chars |-> chars]
NameUndef == [t |-> "absent", chars |-> <<>>]
NameNum == [t |-> "num", chars |-> <<>>]

Lower == {"a", "b", "c", "d", "e", "f", "g", "h", "i", "j", "k", "l", "m",
          "n", "o", "p", "q", "r", "s", "t", "u", "v", "w", "x", "y", "z"}
Digit == {"0", "1", "2", "3", "4", "5", "6", "7", "8", "9"}
Upper == {"A", "B", "C", "D", "E", "F", "G", "H", "I", "J", "K", "L", "M",
          "N", "O", "P", "Q", "R", "S", "T", "U", "V", "W", "X", "Y", "Z"}

\* /^[a-z0-9][a-z0-9-]*[a-z0-9]$/.test(chars)
IndexNameRegexAnyCase(chars) ==
    /\ Len(chars) >= 2
    /\ chars[1] \in Lower \cup Digit \cup Upper
    /\ chars[Len(chars)] \in Lower \cup Digit \cup Upper
    /\ \A k \in 2..(Len(chars) - 1) : chars[k] \in Lower \cup Digit \cup Upper \cup {"-"}

IndexNameRegex(chars) ==
    /\ Len(chars) >= 2
    /\ chars[1] \in Lower \cup Digit
    /\ chars[Len(chars)] \in Lower \cup Digit
    /\ \A k \in 2..(Len(chars) - 1) : chars[k] \in Lower \cup Digit \cup {"-"}

MsgNameRequired == <<"Index name is required and must be a string">>
MsgNameTooLong == <<"Index name must be 63 characters or less">>
MsgNamePattern == <<"Index name must contain only lowercase letters, numbers, and hyphens, and cannot start or end with a hyphen">>

\* validateIndexName: the error it throws, or NoErr when it returns.
validateIndexName(name) ==
    IF name.t # "str" \/ Len(name.chars) = 0
    THEN Err("Error", MsgNameRequired)
    ELSE IF Len(name.chars) > MaxIndexNameLength
    THEN Err("Error", MsgNameTooLong)
    ELSE IF ~IndexNameRegex(name.chars) /\ Len(name.chars) > 1
    THEN Err("Error", MsgNamePattern)
    ELSE NoErr

\* The characters index names are built from in this model.
NameAlphabet == {"a", "7", "-", "B", "_"}

RECURSIVE SeqsUpTo(_, _)
SeqsUpTo(S, n) ==
    IF n = 0 THEN {<<>>}
    ELSE LET shorter == SeqsUpTo(S, n - 1)
         IN shorter \cup {Append(q, x) : q \in {r \in shorter : Len(r) = n - 1}, x \in S}

Repeat(c, n) == [k \in 1..n |-> c]

\* Names around the length limit.
LongNames ==
    { Repeat("a", MaxIndexNameLength),
      Repeat("a", MaxIndexNameLength + 1),
      Repeat("a", MaxIndexNameLength - 1) \o <<"-">>,
      <<"B">> \o Repeat("a", MaxIndexNameLength - 1),
      Repeat("a", MaxIndexNameLength - 2) \o <<"-", "7">> }

ShortNames == SeqsUpTo(NameAlphabet, MaxNameLen)

NameArgs == {NameStr(c) : c \in ShortNames \cup LongNames} \cup {NameUndef, NameNum}

\* ------------------------------------------------------------------ vectors

\* A vector as a caller hands it over: t is "obj" for an object (else the
\* element is null or a number), and each field is a JavaScript value.
Vec(id, values, metadata, namespace) ==
    [t |-> "obj", id |-> id, values |-> values, metadata |-> metadata,
     namespace |-> namespace]
NotAnObject(t) ==
    [t |-> t, id |-> Absent, values |-> Absent, metadata |-> Absent,
     namespace |-> Absent]

MsgBadId == <<"All vectors must have a valid string ID">>

\* One pass of the loop of validateVectorDimensions over vector v.
ValidateVectorIdFirst(v, expectedDimensions) ==
    IF ~Truthy(v.id) \/ v.id.t # "str"
    THEN Err("Error", MsgBadId)
    ELSE IF ~Truthy(v.values) \/ ~IsArrayLike(v.values)
    THEN Err("Error", <<"Vector ", ToStr(v.id), " must have a 'values' array">>)
    ELSE IF Truthy(expectedDimensions) /\ Len(v.values.e) # expectedDimensions.n
    THEN Err("Error", <<"Vector ", ToStr(v.id), " has ", ToString(Len(v.values.e)),
                        " dimensions, expected ", ToString(expectedDimensions.n)>>)
    ELSE NoErr

ValidateVector(v, expectedDimensions) ==
    IF ~Truthy(v.values) \/ ~IsArrayLike(v.values)
    THEN Err("Error", <<"Vector ", ToStr(v.id), " must have a 'values' array">>)
    ELSE IF Truthy(expectedDimensions) /\ Len(v.values.e) # expectedDimensions.n
    THEN Err("Error", <<"Vector ", ToStr(v.id), " has ", ToString(Len(v.values.e)),
                        " dimensions, expected ", ToString(expectedDimensions.n)>>)
    ELSE IF ~Truthy(v.id) \/ v.id.t # "str"
    THEN Err("Error", MsgBadId)
    ELSE NoErr

\* The position of the first element of a non-empty set of positions.
First(S) == CHOOSE k \in S : \A j \in S : k <= j

\* validateVectorDimensions: the error of the first vector that fails, or
\* NoErr when the loop runs to its end.
validateVectorDimensions(vectors, expectedDimensions) ==
    LET bad == {k \in 1..Len(vectors) :
                    ValidateVector(vectors[k], expectedDimensions) # NoErr}
    IN IF bad = {} THEN NoErr
       ELSE ValidateVector(vectors[First(bad)], expectedDimensions)

\* The checks of formatVectors on the element at (0-based) index.
FormatError(v, index) ==
    IF v.t # "obj"
    THEN Err("Error", <<"Vector at index ", ToString(index), " must be an object">>)
    ELSE IF ~Truthy(v.id)
    THEN Err("Error", <<"Vector at index ", ToString(index), " must have an 'id' field">>)
    ELSE IF ~Truthy(v.values) \/ ~IsArrayLike(v.values)
    THEN Err("Error", <<"Vector at index ", ToString(index), " must have a 'values' array">>)
    ELSE NoErr

\* The object formatVectors builds from an element that passed its checks.
FormattedAlwaysCopies(v) ==
    Vec(Str(ToStr(v.id)), v.values, v.metadata,
        IF v.namespace.t = "absent" THEN Absent ELSE Str(ToStr(v.namespace)))

FormattedKeepsId(v) ==
    Vec(v.id, v.values,
        IF Truthy(v.metadata) THEN v.metadata ELSE Absent,
        IF Truthy(v.namespace) THEN Str(ToStr(v.namespace)) ELSE Absent)

Formatted(v) ==
    Vec(Str(ToStr(v.id)), v.values,
        IF Truthy(v.metadata) THEN v.metadata ELSE Absent,
        IF Truthy(v.namespace) THEN Str(ToStr(v.namespace)) ELSE Absent)

\* formatVectors: map throws at the first element that fails a check.
formatVectors(vectors) ==
    LET bad == {k \in 1..Len(vectors) : FormatError(vectors[k], k - 1) # NoErr}
    IN IF bad = {}
       THEN Returned(RetVectors([k \in 1..Len(vectors) |-> Formatted(vectors[k])]))
       ELSE Threw(FormatError(vectors[First(bad)], First(bad) - 1))

\* Array.prototype.slice(start, end) on a 1-based sequence; a negative
\* argument counts from the end.
SliceIndex(len, k) == IF k < 0 THEN Max(len + k, 0) ELSE Min(k, len)
SliceToLast(seq, start, end) ==
    LET from == SliceIndex(Len(seq), start)
        to == SliceIndex(Len(seq), end - 1)
    IN IF to <= from THEN <<>> ELSE SubSeq(seq, from + 1, to)

Slice(seq, start, end) ==
    LET from == SliceIndex(Len(seq), start)
        to == SliceIndex(Len(seq), end)
    IN IF to <= from THEN <<>> ELSE SubSeq(seq, from + 1, to)

\* batchVectors' batchSize parameter with its default.
BatchSizeOf(batchSize) == IF batchSize.t = "absent" THEN DefaultBatchSize ELSE batchSize.n

\* --------------------------------------------------------- request executor

\* One entry of an envelope's errors list.
ApiError(code, message) == [code |-> code, message |-> message]
\* The errors field: not there, or a list of entries.
NoErrors == [t |-> "absent", list |-> <<>>]
ErrorList(list) == [t |-> "arr", list |-> list]

\* A response or error body: t is "obj" for a JSON object, "str" for the empty
\* string, "undef" for null or undefined.
Body(success, result, errors, message) ==
    [t |-> "obj", success |-> success, result |-> result, errors |-> errors,
     message |-> message]
NoBody == [t |-> "undef", success |-> Absent, result |-> Absent,
           errors |-> NoErrors, message |-> Absent]
EmptyBody == [t |-> "str", success |-> Absent, result |-> Absent,
              errors |-> NoErrors, message |-> Absent]

\* What the transport call does: "ok" returns body, "http" throws an error
\* with response {status, data: body}, "net" throws an error with only a
\* message (cause).
TransportOk(body) == [kind |-> "ok", status |-> 200, body |-> body, cause |-> ""]
TransportHttp(status, data) == [kind |-> "http", status |-> status, body |-> data, cause |-> ""]
TransportNet(cause) == [kind |-> "net", status |-> 0, body |-> NoBody, cause |-> cause]
NoResp == [kind |-> "none", status |-> 0, body |-> NoBody, cause |-> ""]

\* errors.map(e => e.message).join(', ')
RECURSIVE Join(_)
Join(list) ==
    IF Len(list) = 0 THEN <<>>
    ELSE IF Len(list) = 1 THEN <<list[1].message>>
    ELSE <<list[1].message, ", ">> \o Join(Tail(list))

\* Something thrown inside the try block: status 0 stands for no response.
Thrown(cls, msg, status, data) == [cls |-> cls, msg |-> msg, status |-> status, data |-> data]

\* response.result || response
ResultOrResponse(body) ==
    IF Truthy(body.result) THEN RetValue(body.result) ELSE RetRaw

\* The catch block of executeRequest.
CatchWrapsAll(t) ==
    Err("NodeOperationError", <<"Request failed: ">> \o t.msg)

CatchMessageFirst(t) ==
    IF t.cls = "NodeOperationError" THEN Err(t.cls, t.msg)
    ELSE IF t.status # 0
    THEN IF t.data.t = "obj" /\ Truthy(t.data.message)
         THEN Err("NodeOperationError", <<"API error: ", ToStr(t.data.message)>>)
         ELSE IF t.data.t = "obj" /\ t.data.errors.t = "arr" /\ Len(t.data.errors.list) > 0
         THEN Err("NodeOperationError", <<"API error: ">> \o Join(t.data.errors.list))
         ELSE Err("NodeOperationError", <<"HTTP ", ToString(t.status), " error">>)
    ELSE Err("NodeOperationError", <<"Request failed: ">> \o t.msg)

Catch(t) ==
    IF t.cls = "NodeOperationError" THEN Err(t.cls, t.msg)
    ELSE IF t.status # 0
    THEN IF t.data.t = "obj" /\ t.data.errors.t = "arr" /\ Len(t.data.errors.list) > 0
         THEN Err("NodeOperationError", <<"API error: ">> \o Join(t.data.errors.list))
         ELSE IF t.data.t = "obj" /\ Truthy(t.data.message)
         THEN Err("NodeOperationError", <<"API error: ", ToStr(t.data.message)>>)
         ELSE Err("NodeOperationError", <<"HTTP ", ToString(t.status), " error">>)
    ELSE Err("NodeOperationError", <<"Request failed: ">> \o t.msg)

\* executeRequest from the point where the transport call has settled as r.
executeRequest(r) ==
    IF r.kind = "ok"
    THEN IF r.body.t = "undef"
         THEN Threw(Catch(Thrown("TypeError",
                  <<"Cannot read properties of undefined (reading 'success')">>, 0, NoBody)))
         ELSE IF r.body.success = Bool(FALSE)
         THEN Threw(Catch(Thrown("NodeOperationError",
                  <<"Cloudflare API error: ">> \o Join(r.body.errors.list), 0, NoBody)))
         ELSE Returned(ResultOrResponse(r.body))
    ELSE IF r.kind = "http"
    THEN Threw(Catch(Thrown("HttpError", <<"Request failed with status code ">>,
                            r.status, r.body)))
    ELSE Threw(Catch(Thrown("NetworkError", <<r.cause>>, 0, NoBody)))

\* ---------------------------------------------------------------- arguments

\* A list argument: not there, or an array of vectors.
NoList == [t |-> "absent", list |-> <<>>]
List(list) == [t |-> "arr", list |-> list]

\* The arguments of a call; a field an operation does not take stays at its
\* default.
NoArgs ==
    [indexName |-> NameUndef, vectors |-> NoList, expectedDimensions |-> Absent,
     batchSize |-> Absent, ids |-> Absent, propertyName |-> Absent,
     vector |-> Absent, id |-> Absent, topK |-> Absent, returnMetadata |-> Absent,
     dimensions |-> Absent, metric |-> Absent, cursor |-> Absent, limit |-> Absent]

\* The connection settings every wrapper is handed.
VectorizeConnectionConfig(accountId, apiToken, apiEndpoint) ==
    [accountId |-> accountId, apiToken |-> apiToken, apiEndpoint |-> apiEndpoint]
NoConfig == VectorizeConnectionConfig("", "", "")

\* An HTTP request handed to the transport: endpoint is path with the index
\* name in place of {name}, followed by the query.
Request(method, path, name, query, body) ==
    [method |-> method, path |-> path, name |-> name, query |-> query, body |-> body]

\* Inputs of validateVectorDimensions.
ValidateIds == {Str(""), Str("v1"), Str("v2"), Num(7)}
ValidateValues ==
    {Absent, Str("abc"), Arr(<<>>), Arr(<<Num(1), Num(2)>>),
     Arr(<<Str("x"), Num(2)>>), F32(<<Num(1)>>)}
ValidateVecs == {Vec(i, v, Absent, Absent) : i \in ValidateIds, v \in ValidateValues}
ExpectedDims == {Absent, Num(0), Num(1), Num(2)}

\* Inputs of formatVectors: raw elements as parsed from JSON.
FormatIds == {Str(""), Str("v1"), Num(7)}
FormatValues ==
    {Absent, Str("abc"), Arr(<<Num(1), Num(2)>>), Arr(<<Str("x"), Num(2)>>),
     F32(<<Num(1)>>)}
FormatOptionals ==
    {<<Absent, Absent>>, <<Null, Absent>>, <<Obj("meta"), Absent>>,
     <<Absent, Str("")>>, <<Absent, Str("ns")>>, <<Obj("meta"), Num(5)>>}
FormatVecs ==
    {Vec(i, v, Absent, Absent) : i \in FormatIds, v \in FormatValues}
        \cup {Vec(i, v, o[1], o[2]) : i \in {Str("v1"), Num(7)},
                                      v \in {Arr(<<Num(1), Num(2)>>), F32(<<Num(1)>>)},
                                      o \in FormatOptionals}
        \cup {NotAnObject("null"), NotAnObject("num")}

\* Inputs of batchVectors.
V1 == Vec(Str("v1"), Arr(<<Num(1), Num(2)>>), Absent, Absent)
V2 == Vec(Str("v2"), Arr(<<Num(3), Num(4)>>), Absent, Absent)
BatchVecs == {V1, V2}
BatchSizes == {Absent} \cup {Num(n) : n \in (-1)..MaxBatchSize}

\* Inputs of the operation wrappers.
Configs ==
    {VectorizeConnectionConfig("acct-1", "token-A", "https://api.cloudflare.com/client/v4"),
     VectorizeConnectionConfig("acct-1", "token-B", "https://api.cloudflare.com/client/v4"),
     VectorizeConnectionConfig("acct-2", "token-A", "https://gateway.example/v4")}
SampleNames ==
    {NameUndef, NameStr(<<>>), NameStr(<<"a">>), NameStr(<<"a", "-", "7">>),
     NameStr(<<"a", "_">>), NameStr(<<"-", "a">>), NameStr(<<"_">>),
     NameStr(Repeat("a", MaxIndexNameLength + 1))}
DimensionArgs == {Absent, Num(0), Num(-1), Num(3), Half(2)}
MetricArgs == {Absent, Str("cosine"), Str("manhattan")}
VectorListArgs ==
    {NoList, List(<<>>), List(<<V1>>), List(<<V1, V2>>),
     List(<<V1, Vec(Str("v2"), Absent, Absent, Absent)>>),
     List(<<Vec(Num(7), Arr(<<Num(1)>>), Absent, Absent)>>),
     List(<<Vec(Str("v1"), F64(<<Num(1), Num(2)>>), Absent, Absent)>>)}
IdListArgs == {Absent, Str("v1"), Arr(<<>>), Arr(<<Str("v1")>>), Arr(<<Str("v1"), Str("v2")>>)}
PropertyNameArgs == {Absent, Str(""), Num(7), Str("category")}
QueryVectorArgs == {Absent, Str("v1"), Arr(<<Num(1), Num(2)>>), F32(<<Num(1), Num(2)>>)}
QueryIdArgs == {Absent, Str(""), Num(7), Str("v1")}
TopKArgs == {Absent, Num(5)}
ReturnMetadataArgs == {Absent, Str("all")}
IndexDimensions == {Absent, Num(2), Num(3)}
\* A list longer than one batch of batchVectors' default size.
LargeList == List(Repeat(V1, DefaultBatchSize) \o <<V2>>)
\* Name, vectors and index dimensionality of an insertVectors / upsertVectors call.
InsertInputs ==
    (SampleNames \X VectorListArgs \X IndexDimensions)
        \cup {<<NameStr(<<"a", "-", "7">>), LargeList, Absent>>}
CursorArgs == {Absent, Str("c1")}
LimitArgs == {Absent, Num(0), Num(10)}

\* What the service and the transport can answer.
ApiErrors == {ApiError(1003, "index not found"), ApiError(10000, "rate limited")}
ErrorLists == {NoErrors} \cup {ErrorList(l) : l \in SeqsUpTo(ApiErrors, MaxErrors)}
Results ==
    {Absent, Null, Num(0), Num(5), Bool(FALSE), Str(""), Arr(<<>>), Obj("index"),
     Obj("indexes")}
OkBodies ==
    {Body(s, r, e, Absent) : s \in {Absent, Bool(TRUE), Bool(FALSE)}, r \in Results,
                             e \in ErrorLists}
        \cup {NoBody, EmptyBody}
ErrorBodies ==
    {Body(s, Absent, e, m) : s \in {Absent, Bool(FALSE)}, e \in ErrorLists,
                             m \in {Absent, Str(""), Str("Forbidden")}}
        \cup {NoBody}
HttpStatuses == {404, 429, 500}
Causes == {"connect ECONNREFUSED", "getaddrinfo ENOTFOUND", "timeout of 10000ms exceeded"}

\* ------------------------------------------------------------------- state

\* Invocations that are in flight at the same time, as the node's callers can
\* start them: calls holds each one's position, arguments, request, response
\* and outcome, and given the config it was handed; shared is the one config
\* object they are all handed.
CallIds == {"first", "second"}
IdleCall ==
    [pc |-> "idle", op |-> "none", given |-> NoConfig, args |-> NoArgs,
     requests |-> <<>>, resp |-> NoResp, outcome |-> NoOutcome]

\* A run of the node's execute: its input items, the continueOnFail setting,
\* the connection config it read, the loop index i, returnData, the requests
\* it has issued (each with the index of its item) and how many of their
\* exchanges have completed, the errors its catch block has been handed, and
\* the error execute itself threw.
IdleNode ==
    [pc |-> "idle", items |-> <<>>, continueOnFail |-> FALSE, config |-> NoConfig,
     i |-> 0, returnData |-> <<>>, requests |-> <<>>, settled |-> 0,
     caught |-> <<>>, error |-> NoErr]

Init ==
    /\ pc = "idle"
    /\ op = "none"
    /\ config = NoConfig
    /\ args = NoArgs
    /\ outcome = NoOutcome
    /\ loop = [i |-> 0, batches |-> <<>>]
    /\ requests = <<>>
    /\ resp = NoResp
    /\ calls = [c \in CallIds |-> IdleCall]
    /\ shared = NoConfig
    /\ node = IdleNode

OutcomeOf(e) == IF e = NoErr THEN Returned(RetVoid) ELSE Threw(e)

\* A pure function is called with its inputs (args) and then returns; what its
\* body leaves of the inputs is args after the return.
ValidateIndexName ==
    /\ pc = "idle"
    /\ \E name \in NameArgs : args' = [NoArgs EXCEPT !.indexName = name]
    /\ pc' = "called"
    /\ op' = "validateIndexName"
    /\ UNCHANGED <<config, outcome, loop, requests, resp, calls, shared, node>>

ValidateIndexNameReturns ==
    /\ pc = "called"
    /\ op = "validateIndexName"
    /\ outcome' = OutcomeOf(validateIndexName(args.indexName))
    /\ pc' = "done"
    /\ UNCHANGED <<op, config, args, loop, requests, resp, calls, shared, node>>

ValidateVectorDimensions ==
    /\ pc = "idle"
    /\ \E vs \in SeqsUpTo(ValidateVecs, MaxVecs), d \in ExpectedDims :
        args' = [NoArgs EXCEPT !.vectors = List(vs), !.expectedDimensions = d]
    /\ pc' = "called"
    /\ op' = "validateVectorDimensions"
    /\ UNCHANGED <<config, outcome, loop, requests, resp, calls, shared, node>>

ValidateVectorDimensionsReturns ==
    /\ pc = "called"
    /\ op = "validateVectorDimensions"
    /\ outcome' = OutcomeOf(validateVectorDimensions(args.vectors.list,
                                                     args.expectedDimensions))
    /\ pc' = "done"
    /\ UNCHANGED <<op, config, args, loop, requests, resp, calls, shared, node>>

FormatVectors ==
    /\ pc = "idle"
    /\ \E vs \in SeqsUpTo(FormatVecs, MaxVecs) : args' = [NoArgs EXCEPT !.vectors = List(vs)]
    /\ pc' = "called"
    /\ op' = "formatVectors"
    /\ UNCHANGED <<config, outcome, loop, requests, resp, calls, shared, node>>

\* formatted is a new object per element and map returns a new array.
FormatVectorsReturnsInPlace ==
    /\ pc = "called"
    /\ op = "formatVectors"
    /\ outcome' = formatVectors(args.vectors.list)
    /\ args' = IF outcome'.status = "returned"
               THEN [args EXCEPT !.vectors = List(outcome'.ret.vectors)]
               ELSE args
    /\ pc' = "done"
    /\ UNCHANGED <<op, config, loop, requests, resp, calls, shared, node>>

FormatVectorsReturns ==
    /\ pc = "called"
    /\ op = "formatVectors"
    /\ outcome' = formatVectors(args.vectors.list)
    /\ pc' = "done"
    /\ UNCHANGED <<op, config, args, loop, requests, resp, calls, shared, node>>

\* batchVectors: the loop's initialisation, one iteration, and the return.
BatchVectorsStart ==
    /\ pc = "idle"
    /\ \E vs \in SeqsUpTo(BatchVecs, MaxBatchLen), n \in BatchSizes :
        args' = [NoArgs EXCEPT !.vectors = List(vs), !.batchSize = n]
    /\ pc' = "batching"
    /\ op' = "batchVectors"
    /\ loop' = [i |-> 0, batches |-> <<>>]
    /\ UNCHANGED <<config, outcome, requests, resp, calls, shared, node>>

BatchVectorsStep ==
    /\ pc = "batching"
    /\ loop.i < Len(args.vectors.list)
    /\ Len(loop.batches) < MaxLoopSteps
    /\ loop' = [i |-> loop.i + BatchSizeOf(args.batchSize),
                batches |-> Append(loop.batches,
                    Slice(args.vectors.list, loop.i, loop.i + BatchSizeOf(args.batchSize)))]
    /\ UNCHANGED <<pc, op, config, args, outcome, requests, resp, calls, shared, node>>

BatchVectorsReturn ==
    /\ pc = "batching"
    /\ ~(loop.i < Len(args.vectors.list))
    /\ pc' = "done"
    /\ outcome' = Returned(RetBatches(loop.batches))
    /\ UNCHANGED <<op, config, args, loop, requests, resp, calls, shared, node>>

\* ------------------------------------------------------- operation wrappers

\* The first error of a wrapper's checks, in the order they run.
FirstErr(errs) ==
    LET bad == {k \in 1..Len(errs) : errs[k] # NoErr}
    IN IF bad = {} THEN NoErr ELSE errs[First(bad)]

NoRequestBody == [t |-> "none", data |-> NoArgs]
RequestBody(data) == [t |-> "obj", data |-> data]

\* The request parameter of a wrapper: the arguments without the separate
\* indexName parameter and without what the wrapper has no parameter for.
RequestArg(a) == [a EXCEPT !.indexName = NameUndef, !.expectedDimensions = Absent]

\* httpOptions of executeRequest: the url is these pieces followed by the
\* endpoint (path with the index name in place of {name}, then the query).
httpOptionsBareToken(cfg, req) ==
    [method |-> req.method,
     url |-> <<cfg.apiEndpoint, "/accounts/", cfg.accountId, "/vectorize/v2/">>,
     path |-> req.path, name |-> req.name, query |-> req.query,
     authorization |-> <<cfg.apiToken>>,
     contentType |-> "application/json",
     body |-> req.body]

httpOptions(cfg, req) ==
    [method |-> req.method,
     url |-> <<cfg.apiEndpoint, "/accounts/", cfg.accountId, "/vectorize/v2/">>,
     path |-> req.path, name |-> req.name, query |-> req.query,
     authorization |-> <<"Bearer ", cfg.apiToken>>,
     contentType |-> "application/json",
     body |-> req.body]

\* What a wrapper does before the transport is called: err is the first
\* failed check (NoErr when all pass), req what it hands to executeRequest.
Call(err, req) == [err |-> err, req |-> req]

\* A wrapper up to its call of executeRequest: a failed check throws before
\* the call, otherwise the request goes to the transport.
InvokeSendsAnyway(o, cfg, a, call) ==
    /\ op' = o
    /\ config' = cfg
    /\ args' = a
    /\ IF call.err # NoErr
       THEN /\ pc' = "done"
            /\ outcome' = Threw(call.err)
            /\ requests' = Append(requests, httpOptions(cfg, call.req))
       ELSE /\ pc' = "awaiting"
            /\ outcome' = NoOutcome
            /\ requests' = Append(requests, httpOptions(cfg, call.req))
    /\ UNCHANGED <<loop, resp, calls, shared, node>>

Invoke(o, cfg, a, call) ==
    /\ op' = o
    /\ config' = cfg
    /\ args' = a
    /\ IF call.err # NoErr
       THEN /\ pc' = "done"
            /\ outcome' = Threw(call.err)
            /\ requests' = requests
       ELSE /\ pc' = "awaiting"
            /\ outcome' = NoOutcome
            /\ requests' = Append(requests, httpOptions(cfg, call.req))
    /\ UNCHANGED <<loop, resp, calls, shared, node>>

MsgDimensions == <<"Dimensions must be a positive integer">>
MsgIds == <<"Vector IDs are required and must be a non-empty array">>
MsgPropertyName == <<"Property name is required and must be a string">>
MsgQueryVector == <<"Query vector is required and must be an array">>
MsgQueryId == <<"Vector ID is required and must be a string">>

\* for (const vector of request.vectors) on a request without vectors
VectorsError(vectors) ==
    IF vectors.t = "absent"
    THEN Err("TypeError", <<"request.vectors is not iterable">>)
    ELSE validateVectorDimensions(vectors.list, Absent)

IdsError(ids) ==
    IF ~Truthy(ids) \/ ids.t # "arr" \/ Len(ids.e) = 0 THEN Err("Error", MsgIds) ELSE NoErr

PropertyNameError(p) ==
    IF ~Truthy(p) \/ p.t # "str" THEN Err("Error", MsgPropertyName) ELSE NoErr

\* The URLSearchParams of listVectors, as its key/value pairs in order.
ListQuery(cursor, limit) ==
    (IF Truthy(cursor) THEN <<<<"cursor", ToStr(cursor)>>>> ELSE <<>>)
        \o (IF Truthy(limit) THEN <<<<"limit", ToStr(limit)>>>> ELSE <<>>)

\* The wrappers, each on its arguments a. For n + 0.5 as for n, being below
\* 1 is the same as n < 1.
createIndex(a) ==
    Call(FirstErr(<<validateIndexName(a.indexName),
                    IF ~Truthy(a.dimensions) \/ a.dimensions.n < 1
                    THEN Err("Error", MsgDimensions) ELSE NoErr>>),
         Request("POST", "indexes", NameUndef, <<>>, RequestBody(a)))

listIndexes(a) ==
    Call(NoErr, Request("GET", "indexes", NameUndef, <<>>, NoRequestBody))

deleteIndex(a) ==
    Call(validateIndexName(a.indexName),
         Request("DELETE", "indexes/{name}", a.indexName, <<>>, NoRequestBody))

getIndex(a) ==
    Call(validateIndexName(a.indexName),
         Request("GET", "indexes/{name}", a.indexName, <<>>, NoRequestBody))

getIndexInfo(a) ==
    Call(validateIndexName(a.indexName),
         Request("GET", "indexes/{name}/info", a.indexName, <<>>, NoRequestBody))

insertVectorsFirstBatch(a) ==
    Call(FirstErr(<<validateIndexName(a.indexName), VectorsError(a.vectors)>>),
         Request("POST", "indexes/{name}/insert", a.indexName, <<>>,
                 RequestBody([RequestArg(a) EXCEPT
                     !.vectors = List(Slice(a.vectors.list, 0, DefaultBatchSize))])))

insertVectors(a) ==
    Call(FirstErr(<<validateIndexName(a.indexName), VectorsError(a.vectors)>>),
         Request("POST", "indexes/{name}/insert", a.indexName, <<>>,
                 RequestBody(RequestArg(a))))

upsertVectors(a) ==
    Call(FirstErr(<<validateIndexName(a.indexName), VectorsError(a.vectors)>>),
         Request("POST", "indexes/{name}/upsert", a.indexName, <<>>,
                 RequestBody(RequestArg(a))))

queryVectors(a) ==
    Call(FirstErr(<<validateIndexName(a.indexName),
                    IF ~Truthy(a.vector) \/ a.vector.t # "arr"
                    THEN Err("Error", MsgQueryVector) ELSE NoErr>>),
         Request("POST", "indexes/{name}/query", a.indexName, <<>>,
                 RequestBody(RequestArg(a))))

\* body: { ...request, vector: request.id }
queryVectorByIdKeepsVector(a) ==
    Call(FirstErr(<<validateIndexName(a.indexName),
                    IF ~Truthy(a.id) \/ a.id.t # "str"
                    THEN Err("Error", MsgQueryId) ELSE NoErr>>),
         Request("POST", "indexes/{name}/query", a.indexName, <<>>,
                 RequestBody(RequestArg(a))))

queryVectorById(a) ==
    Call(FirstErr(<<validateIndexName(a.indexName),
                    IF ~Truthy(a.id) \/ a.id.t # "str"
                    THEN Err("Error", MsgQueryId) ELSE NoErr>>),
         Request("POST", "indexes/{name}/query", a.indexName, <<>>,
                 RequestBody([RequestArg(a) EXCEPT !.vector = a.id])))

getVectorsByIds(a) ==
    Call(FirstErr(<<validateIndexName(a.indexName), IdsError(a.ids)>>),
         Request("POST", "indexes/{name}/get_by_ids", a.indexName, <<>>,
                 RequestBody(RequestArg(a))))

deleteVectorsByIds(a) ==
    Call(FirstErr(<<validateIndexName(a.indexName), IdsError(a.ids)>>),
         Request("POST", "indexes/{name}/delete_by_ids", a.indexName, <<>>,
                 RequestBody(RequestArg(a))))

createMetadataIndex(a) ==
    Call(FirstErr(<<validateIndexName(a.indexName), PropertyNameError(a.propertyName)>>),
         Request("POST", "indexes/{name}/metadata_index/create", a.indexName, <<>>,
                 RequestBody(RequestArg(a))))

deleteMetadataIndex(a) ==
    Call(FirstErr(<<validateIndexName(a.indexName), PropertyNameError(a.propertyName)>>),
         Request("POST", "indexes/{name}/metadata_index/delete", a.indexName, <<>>,
                 RequestBody(RequestArg(a))))

listMetadataIndexes(a) ==
    Call(validateIndexName(a.indexName),
         Request("GET", "indexes/{name}/metadata_index/list", a.indexName, <<>>,
                 NoRequestBody))

listVectors(a) ==
    Call(validateIndexName(a.indexName),
         Request("GET", "indexes/{name}/list", a.indexName, ListQuery(a.cursor, a.limit),
                 NoRequestBody))

\* return this.getIndex(context, config, indexName, itemIndex)
describeIndexOwnEndpoint(a) ==
    Call(validateIndexName(a.indexName),
         Request("GET", "indexes/{name}/describe", a.indexName, <<>>, NoRequestBody))

describeIndex(a) == getIndex(a)

\* The wrapper that operation o names, on its arguments a.
Wrapper(o, a) ==
    CASE o = "createIndex" -> createIndex(a)
      [] o = "listIndexes" -> listIndexes(a)
      [] o = "deleteIndex" -> deleteIndex(a)
      [] o = "getIndex" -> getIndex(a)
      [] o = "getIndexInfo" -> getIndexInfo(a)
      [] o = "insertVectors" -> insertVectors(a)
      [] o = "upsertVectors" -> upsertVectors(a)
      [] o = "queryVectors" -> queryVectors(a)
      [] o = "queryVectorById" -> queryVectorById(a)
      [] o = "getVectorsByIds" -> getVectorsByIds(a)
      [] o = "deleteVectorsByIds" -> deleteVectorsByIds(a)
      [] o = "createMetadataIndex" -> createMetadataIndex(a)
      [] o = "deleteMetadataIndex" -> deleteMetadataIndex(a)
      [] o = "listMetadataIndexes" -> listMetadataIndexes(a)
      [] o = "listVectors" -> listVectors(a)
      [] o = "describeIndex" -> describeIndex(a)

CreateIndex ==
    /\ pc = "idle"
    /\ \E cfg \in Configs, name \in SampleNames, d \in DimensionArgs, m \in MetricArgs :
        LET a == [NoArgs EXCEPT !.indexName = name, !.dimensions = d, !.metric = m]
        IN Invoke("createIndex", cfg, a, createIndex(a))

ListIndexes ==
    /\ pc = "idle"
    /\ \E cfg \in Configs : Invoke("listIndexes", cfg, NoArgs, listIndexes(NoArgs))

DeleteIndex ==
    /\ pc = "idle"
    /\ \E cfg \in Configs, name \in SampleNames :
        LET a == [NoArgs EXCEPT !.indexName = name]
        IN Invoke("deleteIndex", cfg, a, deleteIndex(a))

GetIndex ==
    /\ pc = "idle"
    /\ \E cfg \in Configs, name \in SampleNames :
        LET a == [NoArgs EXCEPT !.indexName = name]
        IN Invoke("getIndex", cfg, a, getIndex(a))

GetIndexInfo ==
    /\ pc = "idle"
    /\ \E cfg \in Configs, name \in SampleNames :
        LET a == [NoArgs EXCEPT !.indexName = name]
        IN Invoke("getIndexInfo", cfg, a, getIndexInfo(a))

\* expectedDimensions is the dimensionality of the index the caller writes
\* to; insertVectors and upsertVectors have no parameter that takes it.
InsertVectors ==
    /\ pc = "idle"
    /\ \E cfg \in Configs, in \in InsertInputs :
        LET a == [NoArgs EXCEPT !.indexName = in[1], !.vectors = in[2],
                                !.expectedDimensions = in[3]]
        IN Invoke("insertVectors", cfg, a, insertVectors(a))

UpsertVectors ==
    /\ pc = "idle"
    /\ \E cfg \in Configs, in \in InsertInputs :
        LET a == [NoArgs EXCEPT !.indexName = in[1], !.vectors = in[2],
                                !.expectedDimensions = in[3]]
        IN Invoke("upsertVectors", cfg, a, upsertVectors(a))

QueryVectors ==
    /\ pc = "idle"
    /\ \E cfg \in Configs, name \in SampleNames, v \in QueryVectorArgs :
        LET a == [NoArgs EXCEPT !.indexName = name, !.vector = v]
        IN Invoke("queryVectors", cfg, a, queryVectors(a))

QueryVectorById ==
    /\ pc = "idle"
    /\ \E cfg \in Configs, name \in SampleNames, id \in QueryIdArgs,
          k \in TopKArgs, m \in ReturnMetadataArgs :
        LET a == [NoArgs EXCEPT !.indexName = name, !.id = id, !.topK = k,
                                !.returnMetadata = m]
        IN Invoke("queryVectorById", cfg, a, queryVectorById(a))

GetVectorsByIds ==
    /\ pc = "idle"
    /\ \E cfg \in Configs, name \in SampleNames, ids \in IdListArgs :
        LET a == [NoArgs EXCEPT !.indexName = name, !.ids = ids]
        IN Invoke("getVectorsByIds", cfg, a, getVectorsByIds(a))

DeleteVectorsByIds ==
    /\ pc = "idle"
    /\ \E cfg \in Configs, name \in SampleNames, ids \in IdListArgs :
        LET a == [NoArgs EXCEPT !.indexName = name, !.ids = ids]
        IN Invoke("deleteVectorsByIds", cfg, a, deleteVectorsByIds(a))

CreateMetadataIndex ==
    /\ pc = "idle"
    /\ \E cfg \in Configs, name \in SampleNames, p \in PropertyNameArgs :
        LET a == [NoArgs EXCEPT !.indexName = name, !.propertyName = p]
        IN Invoke("createMetadataIndex", cfg, a, createMetadataIndex(a))

DeleteMetadataIndex ==
    /\ pc = "idle"
    /\ \E cfg \in Configs, name \in SampleNames, p \in PropertyNameArgs :
        LET a == [NoArgs EXCEPT !.indexName = name, !.propertyName = p]
        IN Invoke("deleteMetadataIndex", cfg, a, deleteMetadataIndex(a))

ListMetadataIndexes ==
    /\ pc = "idle"
    /\ \E cfg \in Configs, name \in SampleNames :
        LET a == [NoArgs EXCEPT !.indexName = name]
        IN Invoke("listMetadataIndexes", cfg, a, listMetadataIndexes(a))

ListVectors ==
    /\ pc = "idle"
    /\ \E cfg \in Configs, name \in SampleNames, c \in CursorArgs, l \in LimitArgs :
        LET a == [NoArgs EXCEPT !.indexName = name, !.cursor = c, !.limit = l]
        IN Invoke("listVectors", cfg, a, listVectors(a))

DescribeIndex ==
    /\ pc = "idle"
    /\ \E cfg \in Configs, name \in SampleNames :
        LET a == [NoArgs EXCEPT !.indexName = name]
        IN Invoke("describeIndex", cfg, a, describeIndex(a))

\* What a wrapper makes of executeRequest's outcome: deleteIndex drops the
\* value, listIndexes returns response.indexes || response, the rest pass it on.
Deliver(o, out) ==
    IF out.status # "returned" THEN out
    ELSE IF o = "deleteIndex" THEN Returned(RetVoid)
    ELSE IF o = "listIndexes" /\ ~out.ret.raw /\ out.ret.val = Obj("indexes")
    THEN Returned(RetValue(Arr(<<>>)))
    ELSE out

\* The transport call settles: the exchange succeeded with a body, ...
TransportReturns ==
    /\ pc = "awaiting"
    /\ \E body \in OkBodies : resp' = TransportOk(body)
    /\ outcome' = Deliver(op, executeRequest(resp'))
    /\ pc' = "done"
    /\ UNCHANGED <<op, config, args, loop, requests, calls, shared, node>>

\* ... the service answered with a status outside 2xx, ...
TransportHttpError ==
    /\ pc = "awaiting"
    /\ \E status \in HttpStatuses, data \in ErrorBodies : resp' = TransportHttp(status, data)
    /\ outcome' = Deliver(op, executeRequest(resp'))
    /\ pc' = "done"
    /\ UNCHANGED <<op, config, args, loop, requests, calls, shared, node>>

\* ... or there was no response at all.
TransportFailsRetries ==
    /\ pc = "awaiting"
    /\ \E cause \in Causes : resp' = TransportNet(cause)
    /\ IF Len(requests) < 3
       THEN /\ requests' = Append(requests, requests[1])
            /\ UNCHANGED <<pc, outcome>>
       ELSE /\ outcome' = Deliver(op, executeRequest(resp'))
            /\ pc' = "done"
            /\ UNCHANGED requests
    /\ UNCHANGED <<op, config, args, loop, calls, shared, node>>

TransportFailsShowsHeaders ==
    /\ pc = "awaiting"
    /\ \E cause \in Causes : resp' = TransportNet(cause)
    /\ outcome' = Threw(Err("NodeOperationError",
                            <<"Request failed: ", resp'.cause, " Authorization: ">>
                                \o requests[1].authorization))
    /\ pc' = "done"
    /\ UNCHANGED <<op, config, args, loop, requests, calls, shared, node>>

TransportFails ==
    /\ pc = "awaiting"
    /\ \E cause \in Causes : resp' = TransportNet(cause)
    /\ outcome' = Deliver(op, executeRequest(resp'))
    /\ pc' = "done"
    /\ UNCHANGED <<op, config, args, loop, requests, calls, shared, node>>

\* The caller takes the outcome; nothing of the call is kept.
Finish ==
    /\ pc = "done"
    /\ pc' = "idle"
    /\ op' = "none"
    /\ config' = NoConfig
    /\ args' = NoArgs
    /\ outcome' = NoOutcome
    /\ loop' = [i |-> 0, batches |-> <<>>]
    /\ requests' = <<>>
    /\ resp' = NoResp
    /\ UNCHANGED <<calls, shared, node>>

Next ==
    \/ ValidateIndexName
    \/ ValidateIndexNameReturns
    \/ ValidateVectorDimensions
    \/ ValidateVectorDimensionsReturns
    \/ FormatVectors
    \/ FormatVectorsReturns
    \/ BatchVectorsStart
    \/ BatchVectorsStep
    \/ BatchVectorsReturn
    \/ CreateIndex
    \/ ListIndexes
    \/ DeleteIndex
    \/ GetIndex
    \/ GetIndexInfo
    \/ InsertVectors
    \/ UpsertVectors
    \/ QueryVectors
    \/ QueryVectorById
    \/ GetVectorsByIds
    \/ DeleteVectorsByIds
    \/ CreateMetadataIndex
    \/ DeleteMetadataIndex
    \/ ListMetadataIndexes
    \/ ListVectors
    \/ DescribeIndex
    \/ TransportReturns
    \/ TransportHttpError
    \/ TransportFails
    \/ Finish

Spec == Init /\ [][Next]_vars

\* ------------------------------------------------------------------ batching

\* batchVectors alone, run to its end: the loop is synchronous code, so an
\* iteration that can be taken is taken, and so is the return.
NextBatching ==
    \/ BatchVectorsStart
    \/ BatchVectorsStep
    \/ BatchVectorsReturn
    \/ Finish

SpecBatching ==
    /\ Init
    /\ [][NextBatching]_vars
    /\ WF_vars(BatchVectorsStep)
    /\ WF_vars(BatchVectorsReturn)

\* --------------------------------------------------------- concurrent calls

Operations ==
    {"createIndex", "listIndexes", "deleteIndex", "getIndex", "getIndexInfo",
     "insertVectors", "upsertVectors", "queryVectors", "queryVectorById",
     "getVectorsByIds", "deleteVectorsByIds", "createMetadataIndex",
     "deleteMetadataIndex", "listMetadataIndexes", "listVectors", "describeIndex"}

\* Inputs of the concurrent calls: arguments that pass every wrapper's own
\* checks, under a name that passes and one that does not.
ConcurrentNames == {NameStr(<<"a", "-", "7">>), NameStr(<<"a", "_">>)}
ConcurrentArgs ==
    {[NoArgs EXCEPT !.indexName = name, !.vectors = List(<<V1>>),
                    !.ids = Arr(<<Str("v1")>>), !.propertyName = Str("category"),
                    !.vector = Arr(<<Num(1), Num(2)>>), !.id = Str("v1"),
                    !.dimensions = Num(3)] : name \in ConcurrentNames}
ConcurrentResponses ==
    {TransportOk(Body(Bool(TRUE), Obj("index"), NoErrors, Absent)),
     TransportOk(Body(Bool(FALSE), Absent,
                      ErrorList(<<ApiError(1003, "index not found")>>), Absent)),
     TransportHttp(404, Body(Absent, Absent, NoErrors, Str("Forbidden"))),
     TransportNet("connect ECONNREFUSED")}

InitConcurrent ==
    /\ pc = "idle"
    /\ op = "none"
    /\ config = NoConfig
    /\ args = NoArgs
    /\ outcome = NoOutcome
    /\ loop = [i |-> 0, batches |-> <<>>]
    /\ requests = <<>>
    /\ resp = NoResp
    /\ calls = [c \in CallIds |-> IdleCall]
    /\ shared \in Configs
    /\ node = IdleNode

\* The call record of wrapper o started on arguments a with config cfg.
Started(o, cfg, a) ==
    LET w == Wrapper(o, a)
    IN [pc |-> IF w.err # NoErr THEN "done" ELSE "awaiting",
        op |-> o, given |-> cfg, args |-> a,
        requests |-> IF w.err # NoErr THEN <<>> ELSE <<httpOptions(cfg, w.req)>>,
        resp |-> NoResp,
        outcome |-> IF w.err # NoErr THEN Threw(w.err) ELSE NoOutcome]

\* A caller starts a wrapper while others may be in flight.
ConcurrentInvokeRewritesConfig ==
    /\ \E c \in CallIds :
        /\ calls[c].pc = "idle"
        /\ \E o \in Operations, a \in ConcurrentArgs :
            calls' = [calls EXCEPT ![c] = Started(o, shared, a)]
    /\ shared' = [shared EXCEPT !.apiEndpoint = "https://gateway.example/v4"]
    /\ UNCHANGED <<pc, op, config, args, outcome, loop, requests, resp, node>>

ConcurrentInvoke ==
    /\ \E c \in CallIds :
        /\ calls[c].pc = "idle"
        /\ \E o \in Operations, a \in ConcurrentArgs :
            calls' = [calls EXCEPT ![c] = Started(o, shared, a)]
    /\ UNCHANGED <<pc, op, config, args, outcome, loop, requests, resp, shared, node>>

\* The transport call of one of the calls in flight settles.
ConcurrentSettle ==
    /\ \E c \in CallIds :
        /\ calls[c].pc = "awaiting"
        /\ \E r \in ConcurrentResponses :
            calls' = [calls EXCEPT ![c].pc = "done", ![c].resp = r,
                                   ![c].outcome = Deliver(calls[c].op, executeRequest(r))]
    /\ UNCHANGED <<pc, op, config, args, outcome, loop, requests, resp, shared, node>>

\* A caller takes its outcome; nothing of that call is kept.
ConcurrentFinish ==
    /\ \E c \in CallIds :
        /\ calls[c].pc = "done"
        /\ calls' = [calls EXCEPT ![c] = IdleCall]
    /\ UNCHANGED <<pc, op, config, args, outcome, loop, requests, resp, shared, node>>

NextConcurrent ==
    \/ ConcurrentInvoke
    \/ ConcurrentSettle
    \/ ConcurrentFinish

SpecConcurrent == InitConcurrent /\ [][NextConcurrent]_vars

\* ------------------------------------------------------- the node's execute

\* An input item: its json and the node parameters as they resolve for it
\* (vectors as getNodeParameter('vectors'), vector as 'queryVector', id as
\* 'vectorId', ids as 'vectorIds'; Absent where the parameter is left out).
Item(json, resource, operation, params) ==
    [json |-> json, resource |-> resource, operation |-> operation, params |-> params]

\* The wrapper the switch statements of execute and of the four
\* execute...Operation methods reach for a resource and an operation.
WrapperOfFallsThrough(resource, operation) ==
    CASE resource = "index" /\ operation = "create" -> "createIndex"
      [] resource = "index" /\ operation = "list" -> "listIndexes"
      [] resource = "index" /\ operation = "delete" -> "deleteIndex"
      [] resource = "index" /\ operation = "get" -> "getIndex"
      [] resource = "index" /\ operation = "info" -> "getIndexInfo"
      [] resource = "vector" /\ operation = "insert" -> "insertVectors"
      [] resource = "vector" /\ operation = "upsert" -> "upsertVectors"
      [] resource = "vector" /\ operation = "query" -> "queryVectors"
      [] resource = "vector" /\ operation = "queryById" -> "queryVectorById"
      [] resource = "vector" /\ operation = "getByIds" -> "getVectorsByIds"
      [] resource = "vector" /\ operation = "deleteByIds" -> "deleteVectorsByIds"
      [] resource = "metadata" /\ operation = "createIndex" -> "createMetadataIndex"
      [] resource = "metadata" /\ operation = "deleteIndex" -> "deleteMetadataIndex"
      [] resource = "metadata" /\ operation = "listIndexes" -> "listMetadataIndexes"
      [] resource = "utility" /\ operation = "listVectors" -> "listVectors"
      [] resource = "utility" /\ operation = "describe" -> "describeIndex"
      [] resource = "utility" /\ operation \notin {"listVectors", "describe"} ->
           "describeIndex"
      [] OTHER -> "none"

WrapperOf(resource, operation) ==
    CASE resource = "index" /\ operation = "create" -> "createIndex"
      [] resource = "index" /\ operation = "list" -> "listIndexes"
      [] resource = "index" /\ operation = "delete" -> "deleteIndex"
      [] resource = "index" /\ operation = "get" -> "getIndex"
      [] resource = "index" /\ operation = "info" -> "getIndexInfo"
      [] resource = "vector" /\ operation = "insert" -> "insertVectors"
      [] resource = "vector" /\ operation = "upsert" -> "upsertVectors"
      [] resource = "vector" /\ operation = "query" -> "queryVectors"
      [] resource = "vector" /\ operation = "queryById" -> "queryVectorById"
      [] resource = "vector" /\ operation = "getByIds" -> "getVectorsByIds"
      [] resource = "vector" /\ operation = "deleteByIds" -> "deleteVectorsByIds"
      [] resource = "metadata" /\ operation = "createIndex" -> "createMetadataIndex"
      [] resource = "metadata" /\ operation = "deleteIndex" -> "deleteMetadataIndex"
      [] resource = "metadata" /\ operation = "listIndexes" -> "listMetadataIndexes"
      [] resource = "utility" /\ operation = "listVectors" -> "listVectors"
      [] resource = "utility" /\ operation = "describe" -> "describeIndex"
      [] OTHER -> "none"

\* The default branches: `Unknown resource: ${resource}` in execute,
\* `Unknown index operation: ${operation}` and its like in the methods.
UnknownError(resource, operation) ==
    IF resource \in {"index", "vector", "metadata", "utility"}
    THEN Err("NodeOperationError", <<"Unknown ", resource, " operation: ", operation>>)
    ELSE Err("NodeOperationError", <<"Unknown resource: ", resource>>)

\* getNodeParameter(name, itemIndex, fallback)
ParameterOr(v, fallback) == IF v = Absent THEN fallback ELSE v

\* What the node throws for an item before it calls a wrapper: the default
\* branch of a switch, or formatVectors' error for insert and upsert.
NodePreError(item) ==
    LET o == WrapperOf(item.resource, item.operation)
    IN IF o = "none" THEN UnknownError(item.resource, item.operation)
       ELSE IF o \in {"insertVectors", "upsertVectors"}
       THEN IF item.params.vectors.t # "arr"
            THEN Err("TypeError", <<"Cannot read properties of undefined (reading 'map')">>)
            ELSE formatVectors(item.params.vectors.list).err
       ELSE NoErr

\* The arguments the node hands wrapper o for an item.
NodeArgs(o, item) ==
    LET p == item.params
        named == [NoArgs EXCEPT !.indexName = p.indexName]
        query == [named EXCEPT !.topK = ParameterOr(p.topK, Num(5)),
                               !.returnMetadata = ParameterOr(p.returnMetadata, Str("none"))]
    IN CASE o = "createIndex" ->
              [named EXCEPT !.dimensions = p.dimensions, !.metric = p.metric]
         [] o = "listIndexes" -> NoArgs
         [] o \in {"insertVectors", "upsertVectors"} ->
              [named EXCEPT !.vectors = List(formatVectors(p.vectors.list).ret.vectors)]
         [] o = "queryVectors" -> [query EXCEPT !.vector = p.vector]
         [] o = "queryVectorById" -> [query EXCEPT !.id = p.id]
         [] o \in {"getVectorsByIds", "deleteVectorsByIds"} -> [named EXCEPT !.ids = p.ids]
         [] o \in {"createMetadataIndex", "deleteMetadataIndex"} ->
              [named EXCEPT !.propertyName = p.propertyName]
         [] o = "listVectors" ->
              [named EXCEPT !.limit = ParameterOr(p.limit, Num(100)),
                            !.cursor = IF Truthy(p.cursor) THEN p.cursor ELSE Absent]
         [] OTHER -> named

\* An item up to the transport call: err is what is thrown before it, by the
\* node or by the wrapper's own checks.
NodeCall(item) ==
    LET o == WrapperOf(item.resource, item.operation)
    IN IF NodePreError(item) # NoErr
       THEN Call(NodePreError(item), Request("GET", "", NameUndef, <<>>, NoRequestBody))
       ELSE Wrapper(o, NodeArgs(o, item))

\* What the method does with the wrapper's result: result.vectors.length and
\* result.metadataIndexes.length throw when the result has no such field;
\* the other methods only copy fields of the result.
NodePostError(o, out) ==
    LET has(f) == ~out.ret.raw /\ out.ret.val = Obj(f)
    IN IF o = "getVectorsByIds" /\ ~has("vectors")
       THEN Err("TypeError", <<"Cannot read properties of undefined (reading 'length')">>)
       ELSE IF o = "listMetadataIndexes" /\ ~has("metadataIndexes")
       THEN Err("TypeError", <<"Cannot read properties of undefined (reading 'length')">>)
       ELSE NoErr

\* An entry of returnData: the one pushed after the switch, and the one the
\* catch block pushes.
ResultEntry(item) ==
    [failed |-> FALSE, resource |-> item.resource, operation |-> item.operation,
     json |-> 0, error |-> <<>>]
ErrorEntry(json, e) ==
    [failed |-> TRUE, resource |-> "", operation |-> "", json |-> json, error |-> e.msg]

\* this.getInputData(i)[0].json in the catch block: getInputData takes the
\* index of an INPUT of the node, which has the one input of its description.
\* Input 0 holds the items; for any other index the call yields no item list
\* or throws, so the expression throws one of these.
NoSuchInput ==
    {Err("TypeError", <<"Cannot read properties of undefined (reading '0')">>),
     Err("ApplicationError", <<"Could not get input with given index">>)}

\* The catch block of the loop, handed error e for the item at index n.i;
\* h is what getInputData throws when there is no input n.i.
CatchAlwaysContinues(n, e, h) ==
    LET seen == [n EXCEPT !.caught = Append(n.caught, [item |-> n.i, error |-> e])]
    IN IF n.i = 0
       THEN [seen EXCEPT !.pc = "running", !.i = n.i + 1,
                         !.returnData = Append(n.returnData, ErrorEntry(n.items[1].json, e))]
       ELSE [seen EXCEPT !.pc = "threw", !.error = h]

CatchItemError(n, e, h) ==
    LET seen == [n EXCEPT !.caught = Append(n.caught, [item |-> n.i, error |-> e])]
    IN IF n.continueOnFail
       THEN IF n.i = 0
            THEN [seen EXCEPT !.pc = "running", !.i = n.i + 1,
                              !.returnData = Append(n.returnData,
                                                    ErrorEntry(n.items[1].json, e))]
            ELSE [seen EXCEPT !.pc = "threw", !.error = h]
       ELSE [seen EXCEPT !.pc = "threw", !.error = e]

\* Inputs of execute: every pair of a resource and an operation as a single
\* item, and lists of items that succeed or fail at each place an item can.
Resources == {"index", "vector", "metadata", "utility", "other"}
NodeOperations ==
    {"create", "list", "delete", "get", "info", "insert", "upsert", "query",
     "queryById", "getByIds", "deleteByIds", "createIndex", "deleteIndex",
     "listIndexes", "listVectors", "describe", "bogus"}
GoodParams ==
    [NoArgs EXCEPT !.indexName = NameStr(<<"a", "-", "7">>), !.vectors = List(<<V1>>),
                   !.ids = Arr(<<Str("v1")>>), !.propertyName = Str("category"),
                   !.vector = Arr(<<Num(1), Num(2)>>), !.id = Str("v1"),
                   !.dimensions = Num(3), !.metric = Str("cosine")]
SampleSteps ==
    {<<"index", "get", GoodParams>>,
     <<"vector", "insert", GoodParams>>,
     <<"vector", "getByIds", GoodParams>>,
     <<"vector", "insert",
       [GoodParams EXCEPT !.vectors = List(<<V1, Vec(Absent, Arr(<<Num(1)>>), Absent, Absent)>>)]>>,
     <<"index", "delete", [GoodParams EXCEPT !.indexName = NameStr(<<"-", "a">>)]>>,
     <<"vector", "bogus", GoodParams>>,
     <<"other", "get", GoodParams>>}
NodeInputs ==
    {<<Item(1, r, o, GoodParams)>> : r \in Resources, o \in NodeOperations}
        \cup {[k \in 1..Len(q) |-> Item(k, q[k][1], q[k][2], q[k][3])] :
                q \in SeqsUpTo(SampleSteps, MaxItems)}
NodeResponses ==
    {TransportOk(Body(Bool(TRUE), Obj("index"), NoErrors, Absent)),
     TransportOk(Body(Bool(TRUE), Obj("vectors"), NoErrors, Absent)),
     TransportOk(Body(Bool(FALSE), Absent,
                      ErrorList(<<ApiError(1003, "index not found")>>), Absent)),
     TransportNet("connect ECONNREFUSED")}

\* execute up to its loop: the items, the setting and the config are read.
NodeExecute ==
    /\ node.pc = "idle"
    /\ \E items \in NodeInputs, continueOnFail \in BOOLEAN, cfg \in Configs :
        node' = [IdleNode EXCEPT !.pc = "running", !.items = items,
                                 !.continueOnFail = continueOnFail, !.config = cfg]
    /\ UNCHANGED <<pc, op, config, args, outcome, loop, requests, resp, calls, shared>>

\* One pass of the loop body up to the transport call of the wrapper, or to
\* the catch block when something throws before it.
NodeDispatch ==
    /\ node.pc = "running"
    /\ node.i < Len(node.items)
    /\ LET item == node.items[node.i + 1]
           call == NodeCall(item)
       IN IF call.err # NoErr
          THEN \E h \in NoSuchInput : node' = CatchItemError(node, call.err, h)
          ELSE node' = [node EXCEPT !.pc = "awaiting",
                           !.requests = Append(node.requests,
                               [item |-> node.i,
                                options |-> httpOptions(node.config, call.req)])]
    /\ UNCHANGED <<pc, op, config, args, outcome, loop, requests, resp, calls, shared>>

\* The exchange of the current item completes: the wrapper returns and the
\* entry is pushed, or it throws and the catch block runs.
NodeSettle ==
    /\ node.pc = "awaiting"
    /\ \E r \in NodeResponses, h \in NoSuchInput :
        LET item == node.items[node.i + 1]
            o == WrapperOf(item.resource, item.operation)
            out == Deliver(o, executeRequest(r))
            e == IF out.status = "threw" THEN out.err ELSE NodePostError(o, out)
            settled == [node EXCEPT !.settled = node.settled + 1]
        IN IF e # NoErr
           THEN node' = CatchItemError(settled, e, h)
           ELSE node' = [settled EXCEPT !.pc = "running", !.i = node.i + 1,
                            !.returnData = Append(node.returnData, ResultEntry(item))]
    /\ UNCHANGED <<pc, op, config, args, outcome, loop, requests, resp, calls, shared>>

\* The loop has run through the items: execute returns returnData.
NodeReturn ==
    /\ node.pc = "running"
    /\ node.i = Len(node.items)
    /\ node' = [node EXCEPT !.pc = "returned"]
    /\ UNCHANGED <<pc, op, config, args, outcome, loop, requests, resp, calls, shared>>

\* The workflow takes what execute returned or threw.
NodeFinish ==
    /\ node.pc \in {"returned", "threw"}
    /\ node' = IdleNode
    /\ UNCHANGED <<pc, op, config, args, outcome, loop, requests, resp, calls, shared>>

NextNode ==
    \/ NodeExecute
    \/ NodeDispatch
    \/ NodeSettle
    \/ NodeReturn
    \/ NodeFinish

SpecNode == Init /\ [][NextNode]_vars

\* ------------------------------------------------------------ error taxonomy

\* The named errors of the specification, as the code raises them: the
\* validators throw plain Errors, the executor NodeOperationErrors whose
\* message template tells a service error from a transport error.
IsDimensionMismatch(e) ==
    e.cls = "Error" /\ Len(e.msg) = 6 /\ e.msg[3] = " has "
IsInvalidArgument(e) == e.cls = "Error" /\ ~IsDimensionMismatch(e)
IsRemoteApiError(e) ==
    e.cls = "NodeOperationError" /\ e.msg[1] \in {"Cloudflare API error: ", "API error: "}
IsTransportError(e) ==
    e.cls = "NodeOperationError" /\ e.msg[1] \in {"HTTP ", "Request failed: "}

WrapperOps ==
    {"createIndex", "deleteIndex", "getIndex", "getIndexInfo", "insertVectors",
     "upsertVectors", "queryVectors", "queryVectorById", "getVectorsByIds",
     "deleteVectorsByIds", "createMetadataIndex", "deleteMetadataIndex",
     "listMetadataIndexes", "listVectors", "describeIndex"}

\* -------------------------------------------------------------------- C1

\* The name matches ^[a-z0-9][a-z0-9-]*[a-z0-9]$.
MatchesNamePattern(chars) ==
    /\ Len(chars) >= 2
    /\ \A k \in 1..Len(chars) : chars[k] \in Lower \cup Digit \cup {"-"}
    /\ chars[1] # "-"
    /\ chars[Len(chars)] # "-"

HasForbiddenShape(chars) ==
    \/ \E k \in 1..Len(chars) : chars[k] \in Upper \cup {"_"}
    \/ chars[1] = "-"
    \/ chars[Len(chars)] = "-"

\* C1: validateIndexName returns normally for every name that matches the
\* pattern and has at most 63 characters, and fails with InvalidArgument for
\* every name longer than one character that holds an uppercase letter, an
\* underscore, or a leading or trailing hyphen.
C1_ValidateIndexName ==
    (pc = "done" /\ op = "validateIndexName" /\ args.indexName.t = "str") =>
        LET chars == args.indexName.chars
        IN /\ (MatchesNamePattern(chars) /\ Len(chars) <= 63)
                => outcome.status = "returned"
           /\ (Len(chars) > 1 /\ HasForbiddenShape(chars))
                => (outcome.status = "threw" /\ IsInvalidArgument(outcome.err))

C1_Witness ==
    /\ pc = "done"
    /\ op = "validateIndexName"
    /\ args.indexName = NameStr(<<"a", "B", "7">>)
    /\ outcome.status = "threw"
    /\ outcome.err.msg = MsgNamePattern

\* -------------------------------------------------------------------- C2

\* A vector whose shape the wrappers reject: values not an array, or the id
\* not a non-empty string.
BadVectorShape(v) ==
    \/ v.values.t \notin {"arr", "f32", "f64"}
    \/ v.id.t # "str"
    \/ v.id.s = ""

\* The call's arguments fail one of the validations the wrappers make.
ArgsInvalid ==
    \/ args.indexName.t # "str"
    \/ Len(args.indexName.chars) = 0
    \/ Len(args.indexName.chars) > 63
    \/ Len(args.indexName.chars) > 1 /\ ~MatchesNamePattern(args.indexName.chars)
    \/ /\ op \in {"insertVectors", "upsertVectors"}
       /\ args.vectors.t = "arr"
       /\ \E k \in 1..Len(args.vectors.list) : BadVectorShape(args.vectors.list[k])
    \/ /\ op \in {"getVectorsByIds", "deleteVectorsByIds"}
       /\ (args.ids.t # "arr" \/ Len(args.ids.e) = 0)
    \/ /\ op \in {"createMetadataIndex", "deleteMetadataIndex"}
       /\ (args.propertyName.t = "absent" \/ args.propertyName = Str(""))
    \/ op = "queryVectors" /\ args.vector.t = "absent"
    \/ op = "queryVectorById" /\ (args.id.t = "absent" \/ args.id = Str(""))

\* C2: in every operation wrapper, when the validation of an argument fails,
\* the invocation issues no HTTP request and ends with the validator's own
\* error, not one wrapped as a remote or transport error.
C2_ValidationBeforeRequest ==
    (op \in WrapperOps /\ ArgsInvalid) =>
        /\ pc = "done"
        /\ requests = <<>>
        /\ resp = NoResp
        /\ outcome.status = "threw"
        /\ outcome.err.cls = "Error"
        /\ ~IsRemoteApiError(outcome.err)
        /\ ~IsTransportError(outcome.err)

C2_Witness ==
    /\ pc = "done"
    /\ op = "deleteVectorsByIds"
    /\ args.indexName = NameStr(<<"a", "-", "7">>)
    /\ args.ids = Arr(<<>>)
    /\ requests = <<>>
    /\ outcome.status = "threw"
    /\ outcome.err = Err("Error", MsgIds)

\* -------------------------------------------------------------------- C3

NotSeparator(x) == x # ", "
MessagesOf(list) == [k \in 1..Len(list) |-> list[k].message]

\* msg is a prefix followed by the messages of list, in order, with ", "
\* between them and nothing else.
CarriesMessages(msg, list) ==
    /\ Len(msg) = 1 + (IF Len(list) = 0 THEN 0 ELSE 2 * Len(list) - 1)
    /\ SelectSeq(Tail(msg), NotSeparator) = MessagesOf(list)
    /\ \A k \in 1..(Len(list) - 1) : msg[2 * k + 1] = ", "

EnvelopeFailed ==
    /\ pc = "done"
    /\ resp.kind \in {"ok", "http"}
    /\ resp.body.t = "obj"
    /\ resp.body.success = Bool(FALSE)

\* C3 as stated: whenever the envelope has success = false, whatever the HTTP
\* status and also when errors is empty or absent, executeRequest fails with a
\* RemoteApiError whose message is the errors' messages concatenated in order.
C3_AnyStatus ==
    EnvelopeFailed =>
        /\ outcome.status = "threw"
        /\ IsRemoteApiError(outcome.err)
        /\ CarriesMessages(outcome.err.msg, resp.body.errors.list)

\* C3 (amended): whenever the envelope has success = false and either the
\* exchange succeeded (2xx) or errors is not empty, executeRequest fails with a
\* RemoteApiError whose message is the errors' messages concatenated in order;
\* it returns no result and the error is not turned into a TransportError.
C3_SuccessFalse ==
    (EnvelopeFailed /\ (resp.kind = "ok" \/ Len(resp.body.errors.list) > 0)) =>
        /\ outcome.status = "threw"
        /\ IsRemoteApiError(outcome.err)
        /\ ~IsTransportError(outcome.err)
        /\ CarriesMessages(outcome.err.msg, resp.body.errors.list)

C3_Witness ==
    /\ pc = "done"
    /\ op = "getIndex"
    /\ resp = TransportOk(Body(Bool(FALSE), Absent,
                               ErrorList(<<ApiError(1003, "index not found")>>), Absent))
    /\ outcome.status = "threw"
    /\ outcome.err.msg = <<"Cloudflare API error: ", "index not found">>

\* -------------------------------------------------------------------- C4

\* C4: when the envelope has success = true, executeRequest returns the value
\* of its result field unchanged, whatever that value is, and the raw response
\* only when there is no result field.
C4_ResultUnchanged ==
    (/\ pc = "done"
     /\ op \in WrapperOps \ {"deleteIndex"}
     /\ resp.kind = "ok"
     /\ resp.body.t = "obj"
     /\ resp.body.success = Bool(TRUE)) =>
        /\ outcome.status = "returned"
        /\ resp.body.result.t # "absent" => outcome.ret = RetValue(resp.body.result)
        /\ outcome.ret.raw => resp.body.result.t = "absent"

\* -------------------------------------------------------------------- C5

TransportFailed == pc = "done" /\ resp.kind \in {"http", "net"}
HasErrors(data) == data.t = "obj" /\ Len(data.errors.list) > 0
Occurs(x, msg) == \E k \in 1..Len(msg) : msg[k] = x

\* The mapping of C5, with hasMessage deciding its second case.
FailureMapped(hasMessage) ==
    /\ outcome.status = "threw"
    /\ IsRemoteApiError(outcome.err) # IsTransportError(outcome.err)
    /\ IF resp.kind = "net"
       THEN IsTransportError(outcome.err) /\ Occurs(resp.cause, outcome.err.msg)
       ELSE IF HasErrors(resp.body)
       THEN /\ IsRemoteApiError(outcome.err)
            /\ CarriesMessages(outcome.err.msg, resp.body.errors.list)
       ELSE IF hasMessage
       THEN /\ IsRemoteApiError(outcome.err)
            /\ Tail(outcome.err.msg) = <<resp.body.message.s>>
       ELSE /\ IsTransportError(outcome.err)
            /\ Occurs(ToString(resp.status), outcome.err.msg)

\* C5 as stated: a non-2xx body without errors but with a message field gives
\* a RemoteApiError carrying that message.
C5_AnyMessageField ==
    TransportFailed =>
        FailureMapped(resp.body.t = "obj" /\ resp.body.message.t # "absent")

\* C5 (amended): every failure of the transport call is mapped to one error:
\* non-2xx with a non-empty errors list -> RemoteApiError with the errors'
\* messages; otherwise non-2xx with a non-empty message field -> RemoteApiError
\* with that message; otherwise non-2xx (an empty message included) ->
\* TransportError with the status code; no response -> TransportError with the
\* cause. None escapes unmapped, none is reported as success.
C5_FailureMapping ==
    TransportFailed =>
        FailureMapped(/\ resp.body.t = "obj"
                      /\ resp.body.message.t = "str"
                      /\ resp.body.message.s # "")

C5_Witness ==
    /\ pc = "done"
    /\ resp.kind = "http"
    /\ resp.status = 429
    /\ resp.body.message = Str("Forbidden")
    /\ resp.body.errors = ErrorList(<<ApiError(10000, "rate limited")>>)
    /\ outcome.status = "threw"
    /\ outcome.err.msg = <<"API error: ", "rate limited">>

\* -------------------------------------------------------------------- C6

NameOk ==
    /\ args.indexName.t = "str"
    /\ Len(args.indexName.chars) \in 1..63
    /\ (Len(args.indexName.chars) = 1 \/ MatchesNamePattern(args.indexName.chars))

\* The call's arguments pass every validation of its wrapper.
ArgsValid ==
    \/ op = "listIndexes"
    \/ /\ NameOk
       /\ op = "createIndex" => (args.dimensions.t = "num" /\ args.dimensions.n >= 1)
       /\ op \in {"insertVectors", "upsertVectors"} =>
            /\ args.vectors.t = "arr"
            /\ \A k \in 1..Len(args.vectors.list) : ~BadVectorShape(args.vectors.list[k])
       /\ op = "queryVectors" => args.vector.t = "arr"
       /\ op = "queryVectorById" => (args.id.t = "str" /\ args.id.s # "")
       /\ op \in {"getVectorsByIds", "deleteVectorsByIds"} =>
            (args.ids.t = "arr" /\ Len(args.ids.e) > 0)
       /\ op \in {"createMetadataIndex", "deleteMetadataIndex"} =>
            (args.propertyName.t = "str" /\ args.propertyName.s # "")

C7_RetriesBeforeFailure ==
    (/\ pc = "done"
     /\ outcome.status = "threw"
     /\ (resp.kind = "net" \/ (resp.kind = "http" /\ resp.status = 429))) =>
        Len(requests) >= 2

\* -------------------------------------------------------------------- C8

RECURSIVE Concat(_)
Concat(chunks) == IF chunks = <<>> THEN <<>> ELSE Head(chunks) \o Concat(Tail(chunks))

\* The batch size of the call: 1000 when the argument is omitted.
GivenBatchSize == IF args.batchSize.t = "absent" THEN 1000 ELSE args.batchSize.n

\* C8: for every vector sequence v and batch size n >= 1 (1000 when omitted),
\* batchVectors returns chunks whose concatenation in order is v, each of
\* length at most n, and ceil(len(v)/n) of them.
C8_BatchPartition ==
    (pc = "done" /\ op = "batchVectors" /\ GivenBatchSize >= 1) =>
        LET v == args.vectors.list
            chunks == outcome.ret.batches
        IN /\ outcome.status = "returned"
           /\ Concat(chunks) = v
           /\ \A k \in 1..Len(chunks) : Len(chunks[k]) <= GivenBatchSize
           /\ Len(chunks) = (Len(v) + GivenBatchSize - 1) \div GivenBatchSize

C8_Witness ==
    /\ pc = "done"
    /\ op = "batchVectors"
    /\ args.vectors.list = <<V1, V2, V1>>
    /\ args.batchSize = Num(2)
    /\ outcome.ret.batches = <<<<V1, V2>>, <<V1>>>>

\* -------------------------------------------------------------------- C9

FormatCall == pc = "done" /\ op = "formatVectors"

\* What C9 says of the output for input element v: the id as a string, the
\* same values, and metadata / namespace there exactly when kept(field).
SameVector(v, out, keptMetadata, keptNamespace) ==
    /\ out.id = v.id
    /\ out.values = v.values
    /\ (out.metadata.t # "absent") = keptMetadata
    /\ (out.namespace.t # "absent") = keptNamespace
    /\ out.metadata.t # "absent" => out.metadata = v.metadata
    /\ (out.namespace.t # "absent" /\ v.namespace.t = "str") => out.namespace = v.namespace
    /\ out.metadata.t # "null"
    /\ out.namespace \notin {Null, Str("")}

\* C9 as stated: every element with a string id and array values is accepted,
\* and a field is in the output if and only if it was present in the input.
C9_PresentFieldsKept ==
    (FormatCall /\ \A k \in 1..Len(args.vectors.list) :
                      LET v == args.vectors.list[k]
                      IN v.t = "obj" /\ v.id.t = "str" /\ IsArrayLike(v.values)) =>
        /\ outcome.status = "returned"
        /\ Len(outcome.ret.vectors) = Len(args.vectors.list)
        /\ \A k \in 1..Len(args.vectors.list) :
              LET v == args.vectors.list[k]
              IN SameVector(v, outcome.ret.vectors[k],
                            v.metadata.t # "absent", v.namespace.t # "absent")

\* C9 (amended): for every input sequence in which each element is an object
\* with a non-empty string id and array values, formatVectors returns a
\* sequence of the same length in the same order, where output element k has
\* the input's id and values and has a metadata (resp. namespace) field if and
\* only if input element k had that field with a truthy value (not null, not
\* the empty string); an absent field is never emitted as an empty or null
\* value, and a field with a truthy value is never dropped.
C9_FormatPreserves ==
    (FormatCall /\ \A k \in 1..Len(args.vectors.list) :
                      LET v == args.vectors.list[k]
                      IN /\ v.t = "obj"
                         /\ v.id.t = "str"
                         /\ v.id.s # ""
                         /\ IsArrayLike(v.values)) =>
        /\ outcome.status = "returned"
        /\ Len(outcome.ret.vectors) = Len(args.vectors.list)
        /\ \A k \in 1..Len(args.vectors.list) :
              LET v == args.vectors.list[k]
              IN SameVector(v, outcome.ret.vectors[k],
                            v.metadata.t \notin {"absent", "null"},
                            v.namespace.t # "absent" /\ v.namespace # Str(""))

C9_Witness ==
    /\ FormatCall
    /\ args.vectors.list =
          <<Vec(Str("v1"), F32(<<Num(1)>>), Obj("meta"), Num(5)),
            Vec(Str("v1"), Arr(<<Num(1), Num(2)>>), Absent, Str(""))>>
    /\ outcome.status = "returned"
    /\ outcome.ret.vectors =
          <<Vec(Str("v1"), F32(<<Num(1)>>), Obj("meta"), Str("5")),
            Vec(Str("v1"), Arr(<<Num(1), Num(2)>>), Absent, Absent)>>

\* ------------------------------------------------------------------- C10

\* values is a sequence of numbers.
IsNumericSequence(values) ==
    IsArrayLike(values) /\ \A k \in 1..Len(values.e) : values.e[k].t = "num"

\* The vector meets everything C10 asks of it.
VectorAcceptable(v, expectedDimensions) ==
    /\ IsNumericSequence(v.values)
    /\ v.id.t = "str"
    /\ v.id.s # ""
    /\ expectedDimensions.t = "num" => Len(v.values.e) = expectedDimensions.n

\* C10: validateVectors returns normally if and only if every vector has a
\* numeric values sequence, a non-empty string id and, when expectedDimensions
\* is supplied, values of exactly that length; a failure is a
\* DimensionMismatch naming the vector's id or an InvalidArgument.
C10_ValidateVectorsExactly ==
    (pc = "done" /\ op = "validateVectorDimensions") =>
        /\ (outcome.status = "returned") =
              (\A k \in 1..Len(args.vectors.list) :
                  VectorAcceptable(args.vectors.list[k], args.expectedDimensions))
        /\ outcome.status = "threw" =>
              (IsDimensionMismatch(outcome.err) \/ IsInvalidArgument(outcome.err))
        /\ (outcome.status = "threw" /\ IsDimensionMismatch(outcome.err)) =>
              \E k \in 1..Len(args.vectors.list) :
                  /\ Len(args.vectors.list[k].values.e) # args.expectedDimensions.n
                  /\ outcome.err.msg[2] = ToStr(args.vectors.list[k].id)

\* ----------------------------------------------------------------- C11

\* The vectors of the call that disagree with the index's dimensionality.
WrongLength ==
    {k \in 1..Len(args.vectors.list) :
        /\ IsArrayLike(args.vectors.list[k].values)
        /\ Len(args.vectors.list[k].values.e) # args.expectedDimensions.n}

\* C11: an insertVectors or upsertVectors call whose vectors all have the
\* index's expected dimensionality goes out as a request, and one with a
\* vector of another length fails with a DimensionMismatch naming that vector
\* before any request is sent.
C11_DimensionCheckedBeforeInsert ==
    (/\ op \in {"insertVectors", "upsertVectors"}
     /\ pc \in {"awaiting", "done"}
     /\ NameOk
     /\ args.vectors.t = "arr"
     /\ \A k \in 1..Len(args.vectors.list) : ~BadVectorShape(args.vectors.list[k])
     /\ args.expectedDimensions.t = "num") =>
        IF WrongLength = {}
        THEN Len(requests) = 1
        ELSE /\ requests = <<>>
             /\ outcome.status = "threw"
             /\ IsDimensionMismatch(outcome.err)
             /\ \E k \in WrongLength :
                    Occurs(ToStr(args.vectors.list[k].id), outcome.err.msg)

\* ----------------------------------------------------------------- C12

\* The endpoint table of the specification: method and path per operation.
EndpointTable ==
    [createIndex |-> <<"POST", "indexes">>,
     listIndexes |-> <<"GET", "indexes">>,
     getIndex |-> <<"GET", "indexes/{name}">>,
     describeIndex |-> <<"GET", "indexes/{name}">>,
     getIndexInfo |-> <<"GET", "indexes/{name}/info">>,
     deleteIndex |-> <<"DELETE", "indexes/{name}">>,
     insertVectors |-> <<"POST", "indexes/{name}/insert">>,
     upsertVectors |-> <<"POST", "indexes/{name}/upsert">>,
     queryVectors |-> <<"POST", "indexes/{name}/query">>,
     queryVectorById |-> <<"POST", "indexes/{name}/query">>,
     getVectorsByIds |-> <<"POST", "indexes/{name}/get_by_ids">>,
     deleteVectorsByIds |-> <<"POST", "indexes/{name}/delete_by_ids">>,
     listVectors |-> <<"GET", "indexes/{name}/list">>,
     createMetadataIndex |-> <<"POST", "indexes/{name}/metadata_index/create">>,
     deleteMetadataIndex |-> <<"POST", "indexes/{name}/metadata_index/delete">>,
     listMetadataIndexes |-> <<"GET", "indexes/{name}/metadata_index/list">>]

\* The operations whose path has no index name in it.
Unscoped == {"createIndex", "listIndexes"}

\* The query of a listVectors request carries the caller's cursor and limit
\* and nothing else.
CursorAndLimit(query) ==
    /\ \A k \in 1..Len(query) :
           query[k] \in {<<"cursor", ToStr(args.cursor)>>, <<"limit", ToStr(args.limit)>>}
    /\ (args.cursor.t = "str" /\ args.cursor.s # "") =>
           Occurs(<<"cursor", args.cursor.s>>, query)
    /\ (args.limit.t = "num" /\ args.limit.n > 0) =>
           Occurs(<<"limit", ToString(args.limit.n)>>, query)

\* C12: every request an operation sends has the method and path of the
\* endpoint table with the call's index name in it, the URL prefix
\* {apiEndpoint}/accounts/{accountId}/vectorize/v2/ of the call's config, and
\* the header Authorization: Bearer {apiToken}; only listVectors adds a query,
\* made of the caller's cursor and limit.
C12_EndpointTable ==
    (op \in DOMAIN EndpointTable) =>
        \A k \in 1..Len(requests) :
            LET r == requests[k]
            IN /\ <<r.method, r.path>> = EndpointTable[op]
               /\ r.name = (IF op \in Unscoped THEN NameUndef ELSE args.indexName)
               /\ r.url = <<config.apiEndpoint, "/accounts/", config.accountId,
                            "/vectorize/v2/">>
               /\ r.authorization = <<"Bearer ", config.apiToken>>
               /\ IF op = "listVectors" THEN CursorAndLimit(r.query) ELSE r.query = <<>>

\* A listVectors request with both query parameters, under the gateway config.
C12_Witness ==
    /\ op = "listVectors"
    /\ pc = "awaiting"
    /\ config.accountId = "acct-2"
    /\ Len(requests) = 1
    /\ requests[1].query = <<<<"cursor", "c1">>, <<"limit", "10">>>>
    /\ requests[1].url[1] = "https://gateway.example/v4"
    /\ requests[1].authorization = <<"Bearer ", "token-A">>

\* ----------------------------------------------------------------- C13

\* The fields of the caller's query request other than vector.
OtherQueryFields == DOMAIN NoArgs \ {"vector", "indexName", "expectedDimensions"}

\* C13: a queryVectorById call that passes validation sends exactly one POST
\* to indexes/{name}/query whose body has vector equal to the supplied id, a
\* string, and every other field as the caller supplied it; the caller's own
\* request still has no vector field afterwards.
C13_QueryByIdBody ==
    (op = "queryVectorById" /\ pc \in {"awaiting", "done"} /\ NameOk
        /\ args.id.t = "str" /\ args.id.s # "") =>
        /\ Len(requests) = 1
        /\ requests[1].method = "POST"
        /\ requests[1].path = "indexes/{name}/query"
        /\ requests[1].name = args.indexName
        /\ requests[1].body.t = "obj"
        /\ requests[1].body.data.vector = args.id
        /\ \A f \in OtherQueryFields : requests[1].body.data[f] = args[f]
        /\ args.vector.t = "absent"

\* A query by id that also carries topK and returnMetadata is in flight.
C13_Witness ==
    /\ op = "queryVectorById"
    /\ pc = "awaiting"
    /\ args.id = Str("v1")
    /\ args.topK = Num(5)
    /\ args.returnMetadata = Str("all")
    /\ requests[1].body.data.vector = Str("v1")
    /\ requests[1].body.data.topK = Num(5)

\* ----------------------------------------------------------------- C14

\* What a getIndex call with the state's config, arguments and response shows
\* to its caller and to the service at this point of the call.
ObservedOfGetIndex ==
    LET c == getIndex(args)
    IN [requests |-> IF c.err = NoErr THEN <<httpOptions(config, c.req)>> ELSE <<>>,
        outcome |-> IF c.err # NoErr THEN Threw(c.err)
                    ELSE IF pc = "done" THEN Deliver("getIndex", executeRequest(resp))
                    ELSE NoOutcome]

\* C14: describeIndex is getIndex under another name: for the same config,
\* index name and service response it rejects the same names with the same
\* error, sends the same request and delivers the same result or error.
C14_DescribeIsGetIndex ==
    (op \in {"getIndex", "describeIndex"} /\ pc \in {"awaiting", "done"}) =>
        /\ requests = ObservedOfGetIndex.requests
        /\ outcome = ObservedOfGetIndex.outcome

\* describeIndex has delivered the index the service answered with.
C14_Witness ==
    /\ op = "describeIndex"
    /\ pc = "done"
    /\ Len(requests) = 1
    /\ requests[1].path = "indexes/{name}"
    /\ outcome = Returned(RetValue(Obj("index")))

\* ----------------------------------------------------------------- C15

\* C15: validateIndexName accepts a name only if it is a string of 1 to 63
\* characters that matches the pattern or is a single alphanumeric character,
\* so the index name in the path of any request is made of lowercase letters,
\* digits and hyphens only.
C15_OnlyPatternNames ==
    /\ (op = "validateIndexName" /\ pc = "done" /\ outcome.status = "returned") =>
           /\ args.indexName.t = "str"
           /\ Len(args.indexName.chars) \in 1..63
           /\ \/ MatchesNamePattern(args.indexName.chars)
              \/ /\ Len(args.indexName.chars) = 1
                 /\ args.indexName.chars[1] \in Lower \cup Digit \cup Upper
    /\ \A k \in 1..Len(requests) :
           requests[k].name.t = "str" =>
               \A i \in 1..Len(requests[k].name.chars) :
                   requests[k].name.chars[i] \in Lower \cup Digit \cup {"-"}

\* ----------------------------------------------------------------- C16

\* The outcome of the call as its operation, arguments and response alone
\* determine it: the config, and so the token, has no part in it.
OutcomeWithoutConfig ==
    LET c == Wrapper(op, args)
    IN IF c.err # NoErr THEN Threw(c.err)
       ELSE IF pc = "done" THEN Deliver(op, executeRequest(resp))
       ELSE NoOutcome

\* C16: no error an operation raises has the API token in its message, and
\* the outcome of a call is the same whatever the token: it is determined by
\* the operation, its arguments and the service's response or the transport's
\* failure.
C16_TokenNotInErrors ==
    (op \in DOMAIN EndpointTable /\ pc \in {"awaiting", "done"}) =>
        /\ outcome.status = "threw" => ~Occurs(config.apiToken, outcome.err.msg)
        /\ outcome = OutcomeWithoutConfig

\* A call made with the second token has failed in the transport.
C16_Witness ==
    /\ pc = "done"
    /\ op \in DOMAIN EndpointTable
    /\ config.apiToken = "token-B"
    /\ resp.kind = "net"
    /\ requests[1].authorization = <<"Bearer ", "token-B">>
    /\ outcome.status = "threw"
    /\ IsTransportError(outcome.err)

\* ----------------------------------------------------------------- C17

\* The characters of a name as one string.
RECURSIVE NameText(_)
NameText(chars) == IF Len(chars) = 0 THEN "" ELSE chars[1] \o NameText(Tail(chars))

\* The call failed in a validation: it threw and sent nothing.
ValidationFailed ==
    pc = "done" /\ outcome.status = "threw" /\ requests = <<>> /\ resp = NoResp

\* The index name of the call is a string that a validation refuses.
NameRefused ==
    /\ args.indexName.t = "str"
    /\ Len(args.indexName.chars) > 0
    /\ ~NameOk

\* Vector v fails the validation under the call's expected dimensions.
Offending(v) ==
    \/ BadVectorShape(v)
    \/ /\ args.expectedDimensions.t = "num"
       /\ args.expectedDimensions.n # 0
       /\ Len(v.values.e) # args.expectedDimensions.n

\* C17: a validation error names what failed: an index-name error has the
\* refused index name in its message, a vector error the id of an offending
\* vector, a metadata-index error the refused property name.
C17_ErrorsNameTheEntity ==
    /\ (ValidationFailed /\ op \in {"validateIndexName"} \cup DOMAIN EndpointTable
            /\ op \notin Unscoped /\ NameRefused) =>
           Occurs(NameText(args.indexName.chars), outcome.err.msg)
    /\ (ValidationFailed /\ op = "validateVectorDimensions") =>
           \E k \in 1..Len(args.vectors.list) :
               /\ Offending(args.vectors.list[k])
               /\ Truthy(args.vectors.list[k].id) =>
                      Occurs(ToStr(args.vectors.list[k].id), outcome.err.msg)
    /\ (ValidationFailed /\ op \in {"createMetadataIndex", "deleteMetadataIndex"}
            /\ NameOk /\ Truthy(args.propertyName)) =>
           Occurs(ToStr(args.propertyName), outcome.err.msg)

\* ----------------------------------------------------------------- C18

\* The exchange succeeded with a body that is no envelope: a bare payload
\* without success and result fields, or no content at all.
NoEnvelope ==
    /\ pc = "done"
    /\ resp.kind = "ok"
    /\ \/ resp.body.t # "obj"
       \/ resp.body.success.t = "absent" /\ resp.body.result.t = "absent"

\* C18: when the exchange succeeds and the body has no envelope shape,
\* executeRequest returns normally with the raw body and raises nothing.
C18_RawBodyReturned ==
    (NoEnvelope /\ op \in DOMAIN EndpointTable /\ op # "deleteIndex") =>
        outcome = Returned(RetRaw)

\* ----------------------------------------------------------------- C19

\* What call k shows had it run alone with the config it was given.
Alone(k) ==
    LET w == Wrapper(k.op, k.args)
    IN [requests |-> IF w.err = NoErr THEN <<httpOptions(k.given, w.req)>> ELSE <<>>,
        outcome |-> IF w.err # NoErr THEN Threw(w.err)
                    ELSE IF k.pc = "done" THEN Deliver(k.op, executeRequest(k.resp))
                    ELSE NoOutcome]

\* C19: with several invocations in flight on one shared config, the config
\* stays as every caller handed it over, and each invocation's request and
\* outcome are those of its own arguments and its own response, as if it had
\* run alone.
C19_CallsIndependent ==
    \A c \in CallIds :
        calls[c].pc # "idle" =>
            /\ shared \in Configs
            /\ calls[c].given = shared
            /\ calls[c].requests = Alone(calls[c]).requests
            /\ calls[c].outcome = Alone(calls[c]).outcome

\* Two different operations are in flight together; one has been answered
\* with a service error while the other still waits.
C19_Witness ==
    /\ calls["first"].op = "insertVectors"
    /\ calls["first"].pc = "done"
    /\ calls["first"].outcome.status = "threw"
    /\ IsRemoteApiError(calls["first"].outcome.err)
    /\ calls["second"].op = "getIndex"
    /\ calls["second"].pc = "awaiting"
    /\ Len(calls["second"].requests) = 1

\* ----------------------------------------------------------------- C20

\* Every vector of the call is an object with a non-empty string id and
\* values in one of the three forms: Array, Float32Array, Float64Array.
AllVectorsWellFormed ==
    /\ args.vectors.t = "arr"
    /\ \A k \in 1..Len(args.vectors.list) :
           /\ args.vectors.list[k].t = "obj"
           /\ ~BadVectorShape(args.vectors.list[k])

\* C20: values given as a plain array, a Float32Array or a Float64Array are
\* accepted wherever vector values are taken: by formatVectors, by the vector
\* validation of insertVectors and upsertVectors, and as the query vector of
\* queryVectors.
C20_ThreeFormsAccepted ==
    /\ (FormatCall /\ AllVectorsWellFormed) => outcome.status = "returned"
    /\ (op = "validateVectorDimensions" /\ pc = "done" /\ AllVectorsWellFormed
            /\ args.expectedDimensions.t = "absent") =>
           outcome.status = "returned"
    /\ (op \in {"insertVectors", "upsertVectors"} /\ pc \in {"awaiting", "done"}
            /\ NameOk /\ AllVectorsWellFormed) =>
           Len(requests) = 1
    /\ (op = "queryVectors" /\ pc \in {"awaiting", "done"} /\ NameOk
            /\ IsArrayLike(args.vector)) =>
           Len(requests) = 1

\* ----------------------------------------------------------------- C21

\* Element v of a formatVectors input violates the vector shape.
Violating(v) ==
    \/ v.t # "obj"
    \/ ~Truthy(v.id)
    \/ ~IsNumericSequence(v.values)

ViolatingPositions == {k \in 1..Len(args.vectors.list) : Violating(args.vectors.list[k])}

\* C21: formatVectors on a sequence with a violating element (not an object,
\* a falsy id, values missing or not a numeric sequence) fails with
\* InvalidArgument naming the smallest (0-based) position of a violation, and
\* returns no output at all.
C21_FormatRejectsAtFirstViolation ==
    (FormatCall /\ ViolatingPositions # {}) =>
        /\ outcome.status = "threw"
        /\ IsInvalidArgument(outcome.err)
        /\ outcome.ret.vectors = <<>>
        /\ outcome.err.msg[2] = ToString(First(ViolatingPositions) - 1)

\* ----------------------------------------------------------------- C22

\* C22: insertVectors and upsertVectors do no batching: a valid request, of
\* any number of vectors, goes out as exactly one POST whose body has the
\* complete vector list in the caller's order, and the batching loop is never
\* entered.
C22_OneRequestWholeList ==
    (op \in {"insertVectors", "upsertVectors"} /\ pc \in {"awaiting", "done"}
        /\ ArgsValid) =>
        /\ Len(requests) = 1
        /\ requests[1].method = "POST"
        /\ requests[1].body.t = "obj"
        /\ requests[1].body.data.vectors = args.vectors
        /\ loop = [i |-> 0, batches |-> <<>>]

\* An insert of more vectors than one default batch has gone out and come back.
C22_Witness ==
    /\ op = "insertVectors"
    /\ pc = "done"
    /\ Len(args.vectors.list) > DefaultBatchSize
    /\ Len(requests) = 1
    /\ Len(requests[1].body.data.vectors.list) = DefaultBatchSize + 1
    /\ requests[1].body.data.vectors.list[DefaultBatchSize + 1] = V2
    /\ outcome.status = "returned"

\* ----------------------------------------------------------------- C23

\* The distance metrics an IndexConfig may have.
Metrics == {Str("cosine"), Str("euclidean"), Str("dot-product")}

\* The createIndex request of the call satisfies IndexConfig.
SatisfiesIndexConfig ==
    /\ NameOk
    /\ args.dimensions.t = "num"
    /\ args.dimensions.n >= 1
    /\ args.metric \in Metrics

\* C23: createIndex sends its POST only for a request with a valid name,
\* dimensions a positive integer and a metric among cosine, euclidean and
\* dot-product; any other request fails with InvalidArgument and nothing is
\* sent.
C23_CreateIndexValidated ==
    (op = "createIndex" /\ pc \in {"awaiting", "done"}) =>
        IF SatisfiesIndexConfig
        THEN Len(requests) = 1 /\ requests[1].method = "POST"
        ELSE /\ requests = <<>>
             /\ outcome.status = "threw"
             /\ IsInvalidArgument(outcome.err)

\* ----------------------------------------------------------------- C24

\* The entry of returnData at place k answers the item at place k: a failed
\* item's entry carries the message of the error the catch block was handed
\* for it, any other entry the item's resource and operation.
EntryAnswers(k) ==
    LET entry == node.returnData[k]
        errors == {c \in 1..Len(node.caught) : node.caught[c].item = k - 1}
    IN IF errors = {}
       THEN /\ ~entry.failed
            /\ entry.resource = node.items[k].resource
            /\ entry.operation = node.items[k].operation
       ELSE /\ entry.failed
            /\ \A c \in errors : entry.error = node.caught[c].error.msg

\* C24: with continueOnFail enabled a failing item, at any position, never
\* aborts the run: execute does not throw, and what it returns has exactly
\* one entry per input item, in input order, a failed item's entry carrying
\* its error message.
C24_ContinueOnFailNeverAborts ==
    node.continueOnFail =>
        /\ node.pc # "threw"
        /\ node.pc = "returned" =>
             /\ Len(node.returnData) = Len(node.items)
             /\ \A k \in 1..Len(node.items) : EntryAnswers(k)

\* ----------------------------------------------------------------- C25

RequestsFor(j) == {k \in 1..Len(node.requests) : node.requests[k].item = j}

\* C25: execute handles the items one after the other in input order: at most
\* one exchange is open, it belongs to the current item, and requests were
\* issued in item order; with continueOnFail disabled the first failing item
\* ends the run with its error: nothing is returned, no later item has a
\* request, and the requests of the earlier items stand as they were issued.
C25_SequentialAbortOnFirstFailure ==
    /\ node.settled <= Len(node.requests)
    /\ Len(node.requests) - node.settled <= 1
    /\ Len(node.requests) > node.settled =>
         /\ node.pc = "awaiting"
         /\ node.requests[Len(node.requests)].item = node.i
    /\ \A k \in 1..Len(node.requests) :
         /\ node.requests[k].item <= node.i
         /\ k > 1 => node.requests[k - 1].item < node.requests[k].item
    /\ (~node.continueOnFail /\ node.caught # <<>>) =>
         /\ node.pc = "threw"
         /\ Len(node.caught) = 1
         /\ node.error = node.caught[1].error
         /\ \A j \in 0..(Len(node.items) - 1) :
              /\ j < node.caught[1].item => Cardinality(RequestsFor(j)) = 1
              /\ j > node.caught[1].item => RequestsFor(j) = {}

\* The second of three items failed at the service after the first went
\* through; the third was never reached.
C25_Witness ==
    /\ ~node.continueOnFail
    /\ node.pc = "threw"
    /\ Len(node.items) = 3
    /\ node.caught[1].item = 1
    /\ Len(node.requests) = 2
    /\ node.settled = 2
    /\ Len(node.returnData) = 1

\* ----------------------------------------------------------------- C26

OperationTable(resource) ==
    CASE resource = "index" -> {"create", "list", "delete", "get", "info"}
      [] resource = "vector" ->
           {"insert", "upsert", "query", "queryById", "getByIds", "deleteByIds"}
      [] resource = "metadata" -> {"createIndex", "deleteIndex", "listIndexes"}
      [] resource = "utility" -> {"listVectors", "describe"}
      [] OTHER -> {}

InTable(item) == item.operation \in OperationTable(item.resource)

\* The item at index j has been through the loop body.
Handled(j) == j < node.i \/ (j = node.i /\ node.pc = "threw")

\* C26: a request is only ever issued for an item whose resource and
\* operation are in its resource's table; an item with any other pair, or
\* with an unknown resource, fails with an 'Unknown ...' error and has no
\* request.
C26_DispatchTable ==
    /\ \A k \in 1..Len(node.requests) : InTable(node.items[node.requests[k].item + 1])
    /\ \A j \in 0..(Len(node.items) - 1) :
         (Handled(j) /\ ~InTable(node.items[j + 1])) =>
             /\ RequestsFor(j) = {}
             /\ \E c \in 1..Len(node.caught) :
                  /\ node.caught[c].item = j
                  /\ Len(node.caught[c].error.msg) >= 2
                  /\ node.caught[c].error.msg[1] \in {"Unknown ", "Unknown resource: "}

\* An unknown operation of a known resource failed as the first item and
\* the item after it was dispatched.
C26_Witness ==
    /\ node.pc = "returned"
    /\ Len(node.caught) = 1
    /\ node.caught[1].item = 0
    /\ node.caught[1].error.msg = <<"Unknown ", "vector", " operation: ", "bogus">>
    /\ Len(node.requests) = 1
    /\ node.requests[1].item = 1
    /\ node.requests[1].options.method = "GET"

\* ----------------------------------------------------------------- C27

\* C27: batchVectors terminates and returns for every vector sequence and
\* every integer batchSize, zero and negative ones included.
C27_BatchVectorsTerminates ==
    (pc = "batching") ~> (pc = "done" /\ outcome.status = "returned")

\* ----------------------------------------------------------------- C28

\* The arguments of the insertVectors / upsertVectors call the node makes
\* with what formatVectors returned, for an index name that passes.
AfterFormat ==
    [NoArgs EXCEPT !.indexName = NameStr(<<"a", "-", "7">>),
                   !.vectors = List(outcome.ret.vectors)]

DimensionsSupplied == args.expectedDimensions.t = "num" /\ args.expectedDimensions.n # 0

\* The first check vector v fails, in the order values shape, dimension
\* count, id; "none" when it passes all three.
FirstFailedCheck(v) ==
    IF ~IsArrayLike(v.values) THEN "values"
    ELSE IF DimensionsSupplied /\ Len(v.values.e) # args.expectedDimensions.n THEN "dimensions"
    ELSE IF v.id.t # "str" \/ v.id.s = "" THEN "id"
    ELSE "none"

InvalidPositions ==
    {k \in 1..Len(args.vectors.list) : FirstFailedCheck(args.vectors.list[k]) # "none"}

\* C29: vector validation stops at the first invalid vector of the sequence
\* and reports the first check that vector fails, in the order values shape,
\* dimension count, id; so a vector with a bad id and a dimension mismatch is
\* reported as a dimension mismatch, and later vectors play no part.
C29_FailFastInOrder ==
    (op = "validateVectorDimensions" /\ pc = "done") =>
        IF InvalidPositions = {}
        THEN outcome.status = "returned"
        ELSE LET v == args.vectors.list[First(InvalidPositions)]
                 check == FirstFailedCheck(v)
             IN /\ outcome.status = "threw"
                /\ check = "values" =>
                       /\ Len(outcome.err.msg) = 3
                       /\ outcome.err.msg[3] = " must have a 'values' array"
                       /\ outcome.err.msg[2] = ToStr(v.id)
                /\ check = "dimensions" =>
                       /\ IsDimensionMismatch(outcome.err)
                       /\ outcome.err.msg[2] = ToStr(v.id)
                       /\ outcome.err.msg[4] = ToString(Len(v.values.e))
                /\ check = "id" => outcome.err.msg = MsgBadId

\* Two invalid vectors: the first has a bad id and the wrong length, the
\* second has no values; the error is the first one's dimension mismatch.
C29_Witness ==
    /\ op = "validateVectorDimensions"
    /\ pc = "done"
    /\ Len(args.vectors.list) = 2
    /\ args.expectedDimensions = Num(1)
    /\ args.vectors.list[1].id = Num(7)
    /\ args.vectors.list[1].values = Arr(<<Num(1), Num(2)>>)
    /\ args.vectors.list[2].values = Absent
    /\ outcome.status = "threw"
    /\ IsDimensionMismatch(outcome.err)
    /\ outcome.err.msg[2] = "7"

\* ----------------------------------------------------------------- C30

PureFunctions ==
    {"validateIndexName", "validateVectorDimensions", "formatVectors", "batchVectors"}

\* C30: validateIndexName, validateVectorDimensions, formatVectors and
\* batchVectors leave their inputs as they were: from the call to the return
\* or the throw, no step changes the input sequence or any field of a vector
\* in it; what formatVectors and batchVectors return is built apart from it.
C30_InputsUnchanged ==
    [][(op \in PureFunctions /\ pc \in {"called", "batching"}) => args' = args]_vars

\* formatVectors has returned vectors that differ from its input elements.
C30_Witness ==
    /\ FormatCall
    /\ outcome.status = "returned"
    /\ Len(outcome.ret.vectors) = 2
    /\ outcome.ret.vectors[1] # args.vectors.list[1]
    /\ args.vectors.list[1].namespace = Num(5)
    /\ outcome.ret.vectors[1].namespace = Str("5")

====
